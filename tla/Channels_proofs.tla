---------------------------- MODULE Channels_proofs ----------------------------
(***************************************************************************)
(* The two ChannelMultiplexers implement Channels: proofs for any ids, any  *)
(* number of open() calls and messages, with or without loss of the         *)
(* connection, if no id is opened by both sides.                            *)
(***************************************************************************)
EXTENDS ChannelMultiplexer_proofs, SequenceTheorems

(* A packet is in a queue; one comes before another there.                  *)
In(queue, m)        == \E i \in 1 .. Len(queue) : queue[i] = m
Before(queue, m, o) == \E i, j \in 1 .. Len(queue) : i < j /\ queue[i] = m /\ queue[j] = o

(* What an end sends: the packets that tell of its steps, the n-th of its   *)
(* data.                                                                    *)
Message(type, e, n) == [type |-> type, id |-> IdOf(e), from |-> e, n |-> n]
Signal(type, e)     == Message(type, e, 0)
Datum(e, n)         == Message("Data", e, n)

(* An end for which what the other one writes is on its way, or read.       *)
Live(e) == holder[e] = "open" \/ (e.role = "opener" /\ promise[e.pair] = "waiting")

-----------------------------------------------------------------------------
(* The maps hold what waits and what is open, and nothing else; a side that *)
(* lost the connection has nothing left.                                    *)
Registered ==
  /\ \A k \in Pair : promise[k] = "waiting" <=> k \in pendingOpen[k.by]
  /\ \A e \in End : holder[e] = "open" <=> e \in openChannels[At(e)]
  /\ \A p \in Side : \A k \in pendingOpen[p] : k.by = p
  /\ \A p \in Side : \A e \in openChannels[p] : At(e) = p
  /\ \A p \in closed : link[p] = <<>> /\ pendingOpen[p] = {} /\ openChannels[p] = {}

(* The life of the two ends of a pair, as far as each step of one needs one *)
(* of the other.                                                            *)
Lives ==
  /\ \A k \in Pair :
       /\ promise[k] = "resolved" <=> holder[OpenerOf(k)] # "none"
       /\ promise[k] = "rejected" => k.by \in closed
       /\ promise[k] # "none" => k.n <= opens
       /\ holder[OpenerOf(k)] # "none" => holder[AcceptorOf(k)] # "none"
       /\ holder[AcceptorOf(k)] # "none" => promise[k] # "none"
  /\ \A e \in End :
       /\ holder[e] = "none" => written[e] = 0 /\ read[e] = <<>>
       /\ holder[e] = "told" => holder[Peer(e)] = "closed" \/ At(e) \in closed

(* What a packet on its way to p tells of the end it is from.               *)
Sense(p, m) ==
  LET e == m.from
      k == m.from.pair
  IN /\ m.id = IdOf(e) /\ At(e) = Other(p)
     /\ m.type = "Open"    => /\ e = OpenerOf(k) /\ m = Signal("Open", e)
                              /\ promise[k] \in {"waiting", "rejected"}
                              /\ holder[AcceptorOf(k)] = "none"
     /\ m.type = "AckOpen" => /\ e = AcceptorOf(k) /\ m = Signal("AckOpen", e)
                              /\ promise[k] = "waiting"
                              /\ holder[e] # "none"
     /\ m.type = "Data"    => /\ holder[e] # "none"
                              /\ m.n \in 1 .. written[e]
     /\ m.type = "Close"   => /\ m = Signal("Close", e)
                              /\ holder[e] = "closed"

Senses == \A p \in Side, m \in Packet : In(link[p], m) => Sense(p, m)

(* Two packets of one id: those of an earlier open() call come first, and   *)
(* those of one end in the order open, data, close.                         *)
InOrder(m, o) ==
  m.id = o.id => /\ m.from.pair.n <= o.from.pair.n
                 /\ m.from.pair = o.from.pair
                      => /\ m.type # "Close" /\ o.type \notin {"Open", "AckOpen"}
                         /\ m.type = "Data" /\ o.type = "Data" => m.n < o.n

Ordered == \A p \in Side, m, o \in Packet : Before(link[p], m, o) => InOrder(m, o)

(* What the other side has yet to hear is on its way.                       *)
Underway ==
  /\ \A k \in Pair : promise[k] = "waiting" =>
       IF holder[AcceptorOf(k)] = "none"
       THEN Other(k.by) \in closed \/ In(link[Other(k.by)], Signal("Open", OpenerOf(k)))
       ELSE In(link[k.by], Signal("AckOpen", AcceptorOf(k)))
  /\ \A e \in End : Live(e) /\ holder[Peer(e)] = "closed" =>
       In(link[At(e)], Signal("Close", Peer(e)))

(* What is unread of the other end's data is on its way, and only that.     *)
DataUnderway ==
  \A e \in End : Live(e) =>
    /\ Len(read[e]) <= written[Peer(e)]
    /\ \A n \in Len(read[e]) + 1 .. written[Peer(e)] : In(link[At(e)], Datum(Peer(e), n))
    /\ \A n \in 0 .. MaxData : In(link[At(e)], Datum(Peer(e), n)) => n > Len(read[e])

(* Ids are used again: a call is the last with its id as long as its opener *)
(* takes part in it; an acceptor that is open longer is about to hear so;   *)
(* and what is on its way to an end is not older than the end.              *)
Newest(k) == \A j \in Pair : j.id = k.id /\ promise[j] # "none" => j.n <= k.n

Generations ==
  /\ \A k \in Pair : Live(OpenerOf(k)) => Newest(k)
  /\ \A p \in Side, k \in Pair : In(link[p], Signal("Open", OpenerOf(k))) => Newest(k)
  /\ \A k \in Pair : holder[AcceptorOf(k)] = "open" =>
       Newest(k) \/ In(link[Other(k.by)], Signal("Close", OpenerOf(k)))
  /\ \A e \in End, m \in Packet :
       holder[e] # "none" /\ In(link[At(e)], m) /\ m.id = IdOf(e)
         => e.pair.n <= m.from.pair.n

Wire == Registered /\ Lives /\ Senses /\ Ordered /\ Underway /\ DataUnderway /\ Generations

-----------------------------------------------------------------------------
(* What a queue holds after an Append and after a Tail.                     *)

LEMMA Pushed ==
  ASSUME NEW S, NEW queue \in Seq(S), NEW x \in S
  PROVE  /\ \A m : In(Append(queue, x), m) <=> In(queue, m) \/ m = x
         /\ \A m, o : Before(Append(queue, x), m, o)
                       => Before(queue, m, o) \/ (In(queue, m) /\ o = x)
<1> DEFINE longer == Append(queue, x)
<1>1. /\ Len(longer) = Len(queue) + 1 /\ Len(queue) \in Nat
      /\ \A i \in 1 .. Len(queue) : longer[i] = queue[i]
      /\ longer[Len(queue) + 1] = x
  OBVIOUS
<1> HIDE DEF longer
<1>2. ASSUME NEW m PROVE In(longer, m) <=> In(queue, m) \/ m = x
  <2>1. ASSUME In(longer, m) PROVE In(queue, m) \/ m = x
    <3>1. PICK i \in 1 .. Len(longer) : longer[i] = m
      BY <2>1 DEF In
    <3>2. i \in 1 .. Len(queue) \/ i = Len(queue) + 1
      BY <1>1, <3>1
    <3> QED BY <1>1, <3>1, <3>2 DEF In
  <2>2. ASSUME In(queue, m) PROVE In(longer, m)
    <3>1. PICK i \in 1 .. Len(queue) : queue[i] = m
      BY <2>2 DEF In
    <3>2. i \in 1 .. Len(longer) /\ longer[i] = m
      BY <1>1, <3>1
    <3> QED BY <3>2 DEF In
  <2>3. ASSUME m = x PROVE In(longer, m)
    <3>1. Len(queue) + 1 \in 1 .. Len(longer)
      BY <1>1
    <3> QED BY <1>1, <2>3, <3>1 DEF In
  <2> QED BY <2>1, <2>2, <2>3
<1>3. ASSUME NEW m, NEW o, Before(longer, m, o)
      PROVE  Before(queue, m, o) \/ (In(queue, m) /\ o = x)
  <2>1. PICK i \in 1 .. Len(longer), j \in 1 .. Len(longer) :
          i < j /\ longer[i] = m /\ longer[j] = o
    BY <1>3 DEF Before
  <2>2. i \in 1 .. Len(queue) /\ queue[i] = m
    BY <1>1, <2>1
  <2>3. j \in 1 .. Len(queue) \/ j = Len(queue) + 1
    BY <1>1, <2>1
  <2> QED BY <1>1, <2>1, <2>2, <2>3 DEF In, Before
<1> QED BY <1>2, <1>3 DEF longer

LEMMA Popped ==
  ASSUME NEW S, NEW queue \in Seq(S), queue # <<>>
  PROVE  /\ \A m : In(queue, m) <=> m = Head(queue) \/ In(Tail(queue), m)
         /\ \A m, o : Before(Tail(queue), m, o) => Before(queue, m, o)
         /\ \A o : In(Tail(queue), o) => Before(queue, Head(queue), o)
<1> DEFINE rest == Tail(queue)
<1>1. /\ Len(queue) \in Nat /\ Len(queue) > 0 /\ Len(rest) = Len(queue) - 1
      /\ \A i \in 1 .. Len(rest) : rest[i] = queue[i + 1]
      /\ Head(queue) = queue[1]
  OBVIOUS
<1> HIDE DEF rest
<1>2. ASSUME NEW m, In(queue, m) PROVE m = Head(queue) \/ In(rest, m)
  <2>1. PICK i \in 1 .. Len(queue) : queue[i] = m
    BY <1>2 DEF In
  <2>2. CASE i = 1
    BY <1>1, <2>1, <2>2
  <2>3. CASE i # 1
    <3>1. i - 1 \in 1 .. Len(rest) /\ rest[i - 1] = queue[(i - 1) + 1]
      BY <1>1, <2>1, <2>3
    <3>2. rest[i - 1] = m
      BY <2>1, <3>1
    <3> QED BY <3>1, <3>2 DEF In
  <2> QED BY <2>2, <2>3
<1>3. ASSUME NEW o, In(rest, o) PROVE In(queue, o) /\ Before(queue, Head(queue), o)
  <2>1. PICK i \in 1 .. Len(rest) : rest[i] = o
    BY <1>3 DEF In
  <2>2. /\ i + 1 \in 1 .. Len(queue) /\ queue[i + 1] = o
        /\ 1 \in 1 .. Len(queue) /\ 1 < i + 1
    BY <1>1, <2>1
  <2> QED BY <1>1, <2>2 DEF In, Before
<1>4. In(queue, Head(queue))
  <2>1. 1 \in 1 .. Len(queue)
    BY <1>1
  <2> QED BY <1>1, <2>1 DEF In
<1>5. ASSUME NEW m, NEW o, Before(rest, m, o) PROVE Before(queue, m, o)
  <2>1. PICK i \in 1 .. Len(rest), j \in 1 .. Len(rest) :
          i < j /\ rest[i] = m /\ rest[j] = o
    BY <1>5 DEF Before
  <2>2. /\ i + 1 \in 1 .. Len(queue) /\ queue[i + 1] = m
        /\ j + 1 \in 1 .. Len(queue) /\ queue[j + 1] = o
        /\ i + 1 < j + 1
    BY <1>1, <2>1
  <2> QED BY <2>2 DEF Before
<1> QED BY <1>2, <1>3, <1>4, <1>5 DEF rest

LEMMA Nothing == \A m, o : ~In(<<>>, m) /\ ~Before(<<>>, m, o)
  BY DEF In, Before

(* What the links hold after p sent m: m is the last of what the other side *)
(* is sent, unless it has lost the connection.                              *)
Adds(sent, queues, p, m) ==
  \A q \in Side :
    /\ \A x : In(sent[q], x) <=> In(queues[q], x) \/ (q = Other(p) /\ q \notin closed /\ x = m)
    /\ \A x, y : Before(sent[q], x, y)
                   => Before(queues[q], x, y) \/ (q = Other(p) /\ In(queues[q], x) /\ y = m)

LEMMA SentHolds ==
  ASSUME NEW queues \in [Side -> Seq(Packet)], NEW p \in Side,
         NEW type \in MessageTypes, NEW e \in End, NEW n \in 0 .. MaxData,
         NEW m, m = Message(type, e, n)
  PROVE  m \in Packet /\ Adds(Sent(queues, p, type, e, n), queues, p, m)
<1> DEFINE sent == Sent(queues, p, type, e, n)
<1>1. m \in Packet
  BY EndFields DEF Packet, Message
<1>2. CASE Other(p) \in closed
  BY <1>1, <1>2 DEF Sent, Adds
<1>3. CASE Other(p) \notin closed
  <2>1. sent = [queues EXCEPT ![Other(p)] = Append(@, m)]
    BY <1>3 DEF Sent, Message
  <2>2. \A q \in Side : sent[q] = IF q = Other(p) THEN Append(queues[q], m) ELSE queues[q]
    BY <2>1
  <2>3. queues[Other(p)] \in Seq(Packet)
    BY OtherSide
  <2> HIDE DEF sent
  <2>4. Adds(sent, queues, p, m)
    BY <1>1, <1>3, <2>2, <2>3, Pushed DEF Adds
  <2> QED BY <1>1, <2>4 DEF sent
<1> QED BY <1>2, <1>3

LEMMA PeerOf ==
  ASSUME NEW e \in End
  PROVE  /\ Peer(e) \in End /\ Peer(Peer(e)) = e /\ Peer(e) # e
         /\ Peer(e).pair = e.pair /\ IdOf(Peer(e)) = IdOf(e)
         /\ At(Peer(e)) = Other(At(e)) /\ At(e) = Other(At(Peer(e))) /\ At(Peer(e)) # At(e)
         /\ e = OpenerOf(e.pair) \/ e = AcceptorOf(e.pair)
<1>1. PICK k \in Pair : e = [pair |-> k, role |-> "opener"] \/ e = [pair |-> k, role |-> "acceptor"]
  BY DEF End
<1> QED BY <1>1, OtherSide, EndFields DEF Peer, OpenerOf, AcceptorOf, End, IdOf, At

LEMMA PairEnds ==
  ASSUME NEW k \in Pair
  PROVE  /\ OpenerOf(k).pair = k /\ AcceptorOf(k).pair = k
         /\ OpenerOf(k).role = "opener" /\ AcceptorOf(k).role = "acceptor"
         /\ Peer(OpenerOf(k)) = AcceptorOf(k) /\ Peer(AcceptorOf(k)) = OpenerOf(k)
         /\ OpenerOf(k) # AcceptorOf(k) /\ k.n \in Nat
  BY BoundsAssumption DEF OpenerOf, AcceptorOf, Peer, Pair

(* With one opener, an id and a number name a call.                         *)
LEMMA SamePair ==
  ASSUME OneOpener, NEW k \in Pair, NEW j \in Pair, k.id = j.id
  PROVE  k.by = j.by /\ (k.n = j.n => k = j)
<1>1. /\ MayOpen[k.id] # Side /\ MayOpen[k.id] \subseteq Side
      /\ k.by \in MayOpen[k.id] /\ j.by \in MayOpen[k.id]
  BY OpenersAssumption DEF Pair, OneOpener
<1>2. k.by = j.by
  BY <1>1 DEF Side
<1> QED BY <1>2 DEF Pair

-----------------------------------------------------------------------------
(* What the invariant says of the ends of one id.                           *)

Good == Inv /\ Wire

LEMMA LiveIsUp ==
  ASSUME Good, NEW e \in End, Live(e)
  PROVE  /\ At(e) \notin closed
         /\ promise[e.pair] # "none"
<1>1. CASE holder[e] = "open"
  <2>1. At(e) \notin closed
    BY <1>1 DEF Good, Wire, Registered
  <2>2. holder[AcceptorOf(e.pair)] # "none" /\ e.pair \in Pair
    BY <1>1, PeerOf, EndFields DEF Good, Wire, Lives
  <2> QED BY <2>1, <2>2 DEF Good, Wire, Lives
<1>2. CASE e.role = "opener" /\ promise[e.pair] = "waiting"
  <2>1. e.pair \in Pair /\ e.pair.by = At(e) /\ e.pair \in pendingOpen[At(e)]
    BY <1>2, EndFields DEF Good, Wire, Registered, At
  <2> QED BY <1>2, <2>1 DEF Good, Wire, Registered
<1> QED BY <1>1, <1>2 DEF Live

LEMMA UsedIsCalled ==
  ASSUME Good, NEW e \in End, holder[e] # "none"
  PROVE  promise[e.pair] # "none" /\ e.pair.n <= opens
<1>1. e.pair \in Pair /\ holder[AcceptorOf(e.pair)] # "none"
  BY PeerOf, EndFields DEF Good, Wire, Lives
<1> QED BY <1>1 DEF Good, Wire, Lives

LEMMA OneLive ==
  ASSUME OneOpener, Good, NEW k \in Pair, NEW j \in Pair, k.id = j.id,
         Live(OpenerOf(k)), Live(OpenerOf(j))
  PROVE  k = j
<1>1. OpenerOf(k) \in End /\ OpenerOf(j) \in End
  BY EndsOf
<1>2. promise[k] # "none" /\ promise[j] # "none"
  BY <1>1, LiveIsUp, PairEnds
<1>3. Newest(k) /\ Newest(j)
  BY DEF Good, Wire, Generations
<1>4. k.n <= j.n /\ j.n <= k.n
  BY <1>2, <1>3 DEF Newest
<1> QED BY <1>4, SamePair, PairEnds

LEMMA OneAcceptor ==
  ASSUME OneOpener, Good, NEW k \in Pair, NEW j \in Pair, k.id = j.id,
         holder[AcceptorOf(k)] = "open", holder[AcceptorOf(j)] # "none"
  PROVE  j.n <= k.n
<1>1. /\ promise[j] # "none" /\ AcceptorOf(j) \in End /\ OpenerOf(k) \in End
      /\ IdOf(AcceptorOf(j)) = j.id /\ IdOf(OpenerOf(k)) = k.id /\ j.by = k.by
      /\ At(AcceptorOf(j)) = Other(k.by) /\ At(OpenerOf(k)) = k.by
  BY EndsOf, SamePair DEF Good, Wire, Lives
<1>2. CASE Newest(k)
  BY <1>1, <1>2 DEF Newest
<1>3. CASE In(link[Other(k.by)], Signal("Close", OpenerOf(k)))
  <2>1. Signal("Close", OpenerOf(k)) \in Packet
    BY <1>1, EndFields, BoundsAssumption DEF Signal, Message, Packet, MessageTypes
  <2>2. /\ Signal("Close", OpenerOf(k)).id = k.id
        /\ Signal("Close", OpenerOf(k)).from.pair = k
    BY <1>1, PairEnds DEF Signal, Message
  <2>3. AcceptorOf(j).pair.n <= Signal("Close", OpenerOf(k)).from.pair.n
    BY <1>1, <1>3, <2>1, <2>2 DEF Good, Wire, Generations
  <2> QED BY <2>2, <2>3, PairEnds
<1> QED BY <1>2, <1>3 DEF Good, Wire, Generations

-----------------------------------------------------------------------------
(* What a side finds when it takes a packet.                                *)

LEMMA InIs ==
  ASSUME Good, NEW p \in Side, NEW m \in Packet, In(link[p], m)
  PROVE  /\ Sense(p, m) /\ m.from \in End /\ m.from.pair \in Pair
         /\ m.from.pair.id = m.id /\ At(m.from) = Other(p) /\ At(Peer(m.from)) = p
         /\ promise[m.from.pair] # "none" /\ m.from.pair.n <= opens
<1>1. Sense(p, m)
  BY DEF Good, Wire, Senses
<1>2. m.from \in End /\ m.from.pair \in Pair /\ m.type \in MessageTypes
  BY EndFields DEF Packet
<1>3. /\ m.from.pair.id = m.id /\ At(m.from) = Other(p) /\ At(Peer(m.from)) = p
  BY <1>1, <1>2, PeerOf, OtherSide DEF Sense, IdOf
<1>4. promise[m.from.pair] # "none"
  BY <1>1, <1>2, UsedIsCalled DEF Sense, MessageTypes
<1> QED BY <1>1, <1>2, <1>3, <1>4 DEF Good, Wire, Lives

LEMMA HeadIn ==
  ASSUME Good, NEW p \in Side, link[p] # <<>>, NEW m, m = Head(link[p])
  PROVE  /\ m \in Packet /\ In(link[p], m) /\ Sense(p, m)
         /\ m.from \in End /\ m.from.pair \in Pair
         /\ m.from.pair.id = m.id /\ At(m.from) = Other(p) /\ At(Peer(m.from)) = p
         /\ promise[m.from.pair] # "none"
         /\ \A o \in Packet : In(link[p], o) /\ o # m => InOrder(m, o)
<1>1. link[p] \in Seq(Packet)
  BY DEF Good, Inv, TypeOK
<1>2. m \in Packet /\ In(link[p], m)
  BY <1>1, HeadType, Popped
<1>3. ASSUME NEW o \in Packet, In(link[p], o), o # m PROVE InOrder(m, o)
  <2>1. Before(link[p], m, o)
    BY <1>1, <1>3, Popped
  <2> QED BY <1>2, <2>1 DEF Good, Wire, Ordered
<1> QED BY <1>2, <1>3, InIs

(* What is left when the head m is taken; it is not there twice.            *)
Takes(rest, p, m) ==
  /\ \A q \in Side : \A x : In(rest[q], x) => In(link[q], x)
  /\ \A q \in Side : \A x : In(link[q], x) => In(rest[q], x) \/ (q = p /\ x = m)
  /\ \A q \in Side : \A x, y : Before(rest[q], x, y) => Before(link[q], x, y)
  /\ ~In(rest[p], m)

LEMMA RestHolds ==
  ASSUME Good, NEW p \in Side, link[p] # <<>>, NEW m, m = Head(link[p]),
         NEW rest, rest = [link EXCEPT ![p] = Tail(@)]
  PROVE  rest \in [Side -> Seq(Packet)] /\ Takes(rest, p, m)
<1>1. link \in [Side -> Seq(Packet)] /\ link[p] \in Seq(Packet)
  BY DEF Good, Inv, TypeOK
<1>2. /\ rest \in [Side -> Seq(Packet)] /\ rest[p] = Tail(link[p])
      /\ \A q \in Side : q # p => rest[q] = link[q]
  BY <1>1, HeadType
<1>3. /\ \A x : In(link[p], x) <=> x = m \/ In(rest[p], x)
      /\ \A x, y : Before(rest[p], x, y) => Before(link[p], x, y)
      /\ \A x : In(rest[p], x) => Before(link[p], m, x)
  BY <1>1, <1>2, Popped
<1>4. ASSUME In(rest[p], m) PROVE FALSE
  <2>1. m \in Packet /\ Sense(p, m) /\ m.type \in MessageTypes /\ m.n \in 0 .. MaxData
    BY HeadIn DEF Packet
  <2>2. InOrder(m, m)
    BY <1>3, <1>4, <2>1 DEF Good, Wire, Ordered
  <2> QED BY <2>1, <2>2, BoundsAssumption DEF InOrder, MessageTypes
<1> QED BY <1>2, <1>3, <1>4 DEF Takes

LEMMA SignalIs ==
  ASSUME NEW e \in End, NEW type \in MessageTypes
  PROVE  /\ Signal(type, e) \in Packet /\ Signal(type, e).type = type
         /\ Signal(type, e).id = e.pair.id /\ Signal(type, e).from = e
  BY EndFields, BoundsAssumption DEF Signal, Message, Packet, IdOf

LEMMA DatumIs ==
  ASSUME NEW e \in End, NEW n \in 0 .. MaxData
  PROVE  /\ Datum(e, n) \in Packet /\ Datum(e, n).type = "Data"
         /\ Datum(e, n).id = e.pair.id /\ Datum(e, n).from = e /\ Datum(e, n).n = n
  BY EndFields DEF Datum, Message, Packet, IdOf, MessageTypes

(* The channel an id has at p when a packet of the other side arrives is    *)
(* never that of another call.                                              *)
LEMMA ChannelIsPeer ==
  ASSUME OneOpener, Good, NEW p \in Side, link[p] # <<>>,
         NEW m, m = Head(link[p]), NEW f \in ChannelFor(p, m.id)
  PROVE  f = Peer(m.from)
<1> DEFINE e == Peer(m.from)
           k == m.from.pair
           j == f.pair
<1>1. /\ m \in Packet /\ In(link[p], m) /\ e \in End /\ k \in Pair /\ e.pair = k
      /\ m.id = k.id /\ At(e) = p /\ promise[k] # "none"
      /\ \A o \in Packet : In(link[p], o) /\ o # m => InOrder(m, o)
  BY HeadIn, PeerOf
<1>2. f \in End /\ f \in openChannels[p] /\ f.pair.id = m.id
  BY DEF ChannelFor, Good, Inv, TypeOK, IdOf
<1>3. At(f) = p /\ holder[f] = "open" /\ j \in Pair
  BY <1>2, EndFields DEF Good, Wire, Registered
<1>4. j.by = k.by /\ (j.n = k.n => j = k)
  BY <1>1, <1>2, <1>3, SamePair
<1>5. f.role = e.role
  BY <1>1, <1>2, <1>3, <1>4, EndFields, OtherSide DEF At, End
<1>6. j.n <= k.n
  BY <1>1, <1>2, <1>3 DEF Good, Wire, Generations, IdOf
<1>7. CASE j = k
  BY <1>1, <1>2, <1>5, <1>7 DEF End
<1>8. CASE j # k
  <2>1. ~(k.n <= j.n)
    BY <1>1, <1>3, <1>4, <1>6, <1>8, PairEnds
  <2>2. ~Newest(j)
    BY <1>1, <1>2, <2>1 DEF Newest
  <2>3. f = AcceptorOf(j)
    BY <1>2, <1>3, <2>2, PeerOf DEF Good, Wire, Generations, Live
  <2>4. In(link[p], Signal("Close", OpenerOf(j)))
    BY <1>3, <2>2, <2>3, EndsOf DEF Good, Wire, Generations
  <2> DEFINE c == Signal("Close", OpenerOf(j))
  <2>5. c \in Packet /\ c.id = m.id /\ c.from.pair = j
    BY <1>2, <1>3, EndsOf, PairEnds, SignalIs DEF MessageTypes
  <2>6. c # m
    BY <1>8, <2>5
  <2> HIDE DEF c
  <2>7. InOrder(m, c)
    BY <1>1, <2>4, <2>5, <2>6 DEF c
  <2> QED BY <2>1, <2>5, <2>7 DEF InOrder
<1> QED BY <1>7, <1>8

LEMMA HeadOpen ==
  ASSUME OneOpener, Good, NEW p \in Side, link[p] # <<>>,
         NEW m, m = Head(link[p]), m.type = "Open", NEW k, k = m.from.pair
  PROVE  /\ k \in Pair /\ p = Other(k.by) /\ m.id = k.id /\ m = Signal("Open", OpenerOf(k))
         /\ promise[k] \in {"waiting", "rejected"} /\ Newest(k)
         /\ holder[OpenerOf(k)] = "none" /\ holder[AcceptorOf(k)] = "none"
         /\ ChannelFor(p, m.id) = {} /\ PendingFor(p, m.id) = {}
<1>1. /\ k \in Pair /\ m.id = k.id /\ In(link[p], m) /\ At(m.from) = Other(p)
      /\ m.from = OpenerOf(k) /\ m = Signal("Open", m.from)
      /\ promise[k] \in {"waiting", "rejected"} /\ holder[AcceptorOf(k)] = "none"
  BY HeadIn DEF Sense
<1>2. p = Other(k.by) /\ p # k.by
  BY <1>1, EndsOf, OtherSide
<1>3. Newest(k)
  BY <1>1 DEF Good, Wire, Generations
<1>4. ChannelFor(p, m.id) = {}
  <2> SUFFICES ASSUME NEW f \in ChannelFor(p, m.id) PROVE FALSE
    OBVIOUS
  <2>1. f = AcceptorOf(k)
    BY <1>1, ChannelIsPeer, PairEnds
  <2>2. f \in End /\ f \in openChannels[p]
    BY DEF ChannelFor, Good, Inv, TypeOK
  <2>3. holder[f] = "open"
    BY <2>2 DEF Good, Wire, Registered
  <2> QED BY <1>1, <2>1, <2>3
<1>5. PendingFor(p, m.id) = {}
  <2> SUFFICES ASSUME NEW j \in PendingFor(p, m.id) PROVE FALSE
    OBVIOUS
  <2>1. j \in Pair /\ j.by = p /\ j.id = m.id
    BY DEF PendingFor, Good, Inv, TypeOK, Wire, Registered
  <2>2. j.by = k.by
    BY <1>1, <2>1, SamePair
  <2> QED BY <1>2, <2>1, <2>2
<1>6. holder[OpenerOf(k)] = "none"
  BY <1>1 DEF Good, Wire, Lives
<1> QED BY <1>1, <1>2, <1>3, <1>4, <1>5, <1>6

LEMMA HeadAck ==
  ASSUME OneOpener, Good, NEW p \in Side, link[p] # <<>>,
         NEW m, m = Head(link[p]), m.type = "AckOpen", NEW k, k = m.from.pair
  PROVE  /\ k \in Pair /\ p = k.by /\ m.id = k.id /\ m = Signal("AckOpen", AcceptorOf(k))
         /\ promise[k] = "waiting"
         /\ holder[OpenerOf(k)] = "none" /\ holder[AcceptorOf(k)] # "none"
         /\ PendingFor(p, m.id) = {k} /\ ChannelFor(p, m.id) = {}
<1>1. /\ k \in Pair /\ m.id = k.id /\ In(link[p], m) /\ At(m.from) = Other(p)
      /\ m.from = AcceptorOf(k) /\ m = Signal("AckOpen", m.from)
      /\ promise[k] = "waiting" /\ holder[AcceptorOf(k)] # "none"
  BY HeadIn DEF Sense
<1>2. p = k.by
  BY <1>1, EndsOf, OtherSide
<1>3. k \in PendingFor(p, m.id)
  BY <1>1, <1>2 DEF PendingFor, Good, Wire, Registered
<1>4. ASSUME NEW j \in PendingFor(p, m.id) PROVE j = k
  <2>1. j \in Pair /\ j.by = p /\ j.id = m.id /\ promise[j] = "waiting"
    BY DEF PendingFor, Good, Inv, TypeOK, Wire, Registered
  <2>2. Live(OpenerOf(j)) /\ Live(OpenerOf(k))
    BY <1>1, <2>1, PairEnds DEF Live
  <2> QED BY <1>1, <2>1, <2>2, OneLive
<1>5. ChannelFor(p, m.id) = {}
  BY <1>1, <1>3 DEF PendingFor, Good, Inv, Maps, PendingIsClosed
<1>6. holder[OpenerOf(k)] = "none"
  BY <1>1 DEF Good, Wire, Lives
<1> QED BY <1>1, <1>2, <1>3, <1>4, <1>5, <1>6

LEMMA HeadForEnd ==
  ASSUME OneOpener, Good, NEW p \in Side, link[p] # <<>>,
         NEW m, m = Head(link[p]), m.type = "Data" \/ m.type = "Close", NEW e, e = Peer(m.from)
  PROVE  /\ e \in End /\ At(e) = p /\ m.id = IdOf(e) /\ m.from = Peer(e) /\ m.from \in End
         /\ holder[e] = "open" => ChannelFor(p, m.id) = {e}
         /\ holder[e] # "open" => ChannelFor(p, m.id) = {} /\ ~Live(e)
<1> DEFINE k == m.from.pair
<1>1. /\ m \in Packet /\ In(link[p], m) /\ e \in End /\ k \in Pair /\ e.pair = k
      /\ m.id = k.id /\ At(e) = p /\ m.from = Peer(e) /\ m.from \in End
      /\ holder[m.from] # "none" /\ m.id = IdOf(e)
      /\ \A o \in Packet : In(link[p], o) /\ o # m => InOrder(m, o)
  BY HeadIn, PeerOf DEF Sense
<1>2. \A f \in ChannelFor(p, m.id) : f = e /\ f \in openChannels[p]
  BY ChannelIsPeer DEF ChannelFor
<1>3. /\ holder[e] = "open" => ChannelFor(p, m.id) = {e}
      /\ holder[e] # "open" => ChannelFor(p, m.id) = {}
  BY <1>1, <1>2 DEF ChannelFor, Good, Wire, Registered
<1>4. ASSUME Live(e), holder[e] # "open" PROVE FALSE
  <2>1. e = OpenerOf(k) /\ promise[k] = "waiting"
    BY <1>1, <1>4, PeerOf, PairEnds DEF Live
  <2>2. m.from = AcceptorOf(k)
    BY <1>1, <2>1, PairEnds
  <2> DEFINE a == Signal("AckOpen", AcceptorOf(k))
  <2>3. In(link[p], a)
    BY <1>1, <2>1, <2>2, EndsOf DEF Good, Wire, Underway
  <2>4. a \in Packet /\ a.type = "AckOpen" /\ a.id = m.id /\ a.from = m.from
    BY <1>1, <2>2, EndsOf, SignalIs DEF MessageTypes
  <2> HIDE DEF a
  <2>5. InOrder(m, a)
    BY <1>1, <2>3, <2>4
  <2> QED BY <2>4, <2>5 DEF InOrder
<1> QED BY <1>1, <1>3, <1>4

LEMMA HeadData ==
  ASSUME OneOpener, Good, NEW p \in Side, link[p] # <<>>, NEW m, m = Head(link[p]),
         m.type = "Data", NEW e, e = Peer(m.from), Live(e)
  PROVE  /\ m.n = Len(read[e]) + 1 /\ Len(read[e]) < written[Peer(e)]
         /\ m = Datum(Peer(e), m.n)
<1>1. /\ m \in Packet /\ In(link[p], m) /\ e \in End /\ At(e) = p
      /\ m.from = Peer(e) /\ m.from \in End /\ m.id = IdOf(m.from)
      /\ m.n \in 1 .. written[m.from]
      /\ \A o \in Packet : In(link[p], o) /\ o # m => InOrder(m, o)
  <2>1. m \in Packet /\ In(link[p], m) /\ Sense(p, m)
        /\ \A o \in Packet : In(link[p], o) /\ o # m => InOrder(m, o)
    BY HeadIn
  <2>2. e \in End /\ At(e) = p /\ m.from = Peer(e) /\ m.from \in End
    BY HeadForEnd
  <2> QED BY <2>1, <2>2 DEF Sense
<1>2. m.n \in 0 .. MaxData /\ Len(read[e]) \in Nat /\ written[m.from] \in 0 .. MaxData
  BY <1>1 DEF Packet, Good, Inv, TypeOK
<1>3. m = Datum(Peer(e), m.n)
  BY <1>1 DEF Datum, Message, Packet
<1>4. m.n > Len(read[e])
  BY <1>1, <1>2, <1>3 DEF Good, Wire, DataUnderway
<1>5. ASSUME m.n # Len(read[e]) + 1 PROVE FALSE
  <2> DEFINE d == Datum(Peer(e), Len(read[e]) + 1)
  <2>1. /\ Len(read[e]) + 1 \in Len(read[e]) + 1 .. written[m.from]
        /\ Len(read[e]) + 1 \in 0 .. MaxData /\ Len(read[e]) + 1 < m.n
    BY <1>1, <1>2, <1>4, <1>5, BoundsAssumption
  <2>2. In(link[p], d)
    BY <1>1, <2>1 DEF Good, Wire, DataUnderway
  <2>3. d \in Packet /\ d.type = "Data" /\ d.id = m.id /\ d.from = m.from /\ d.n = Len(read[e]) + 1
    BY <1>1, <2>1, DatumIs DEF IdOf
  <2> HIDE DEF d
  <2>4. InOrder(m, d)
    BY <1>1, <2>1, <2>2, <2>3
  <2> QED BY <1>2, <2>1, <2>3, <2>4 DEF InOrder
<1> QED BY <1>1, <1>2, <1>3, <1>5

LEMMA HeadClosed ==
  ASSUME OneOpener, Good, NEW p \in Side, link[p] # <<>>, NEW m, m = Head(link[p]),
         m.type = "Close", NEW e, e = Peer(m.from)
  PROVE  /\ holder[Peer(e)] = "closed" /\ m = Signal("Close", Peer(e))
         /\ Live(e) => Len(read[e]) = written[Peer(e)]
<1>1. /\ m \in Packet /\ In(link[p], m) /\ e \in End /\ At(e) = p
      /\ m.from = Peer(e) /\ m.from \in End /\ m.id = IdOf(m.from)
      /\ holder[m.from] = "closed" /\ m = Signal("Close", m.from)
      /\ \A o \in Packet : In(link[p], o) /\ o # m => InOrder(m, o)
  <2>1. m \in Packet /\ In(link[p], m) /\ Sense(p, m)
        /\ \A o \in Packet : In(link[p], o) /\ o # m => InOrder(m, o)
    BY HeadIn
  <2>2. e \in End /\ At(e) = p /\ m.from = Peer(e) /\ m.from \in End
    BY HeadForEnd
  <2> QED BY <2>1, <2>2 DEF Sense
<1>2. Len(read[e]) \in Nat /\ written[m.from] \in 0 .. MaxData
  BY <1>1 DEF Good, Inv, TypeOK
<1>3. ASSUME Live(e), Len(read[e]) # written[m.from] PROVE FALSE
  <2> DEFINE d == Datum(Peer(e), Len(read[e]) + 1)
  <2>1. Len(read[e]) <= written[m.from]
    BY <1>1, <1>3 DEF Good, Wire, DataUnderway
  <2>2. /\ Len(read[e]) + 1 \in Len(read[e]) + 1 .. written[m.from]
        /\ Len(read[e]) + 1 \in 0 .. MaxData
    BY <1>2, <1>3, <2>1, BoundsAssumption
  <2>3. In(link[p], d)
    BY <1>1, <1>3, <2>2 DEF Good, Wire, DataUnderway
  <2>4. d \in Packet /\ d.type = "Data" /\ d.id = m.id /\ d.from = m.from
    BY <1>1, <2>2, DatumIs DEF IdOf
  <2> HIDE DEF d
  <2>5. InOrder(m, d)
    BY <1>1, <2>3, <2>4
  <2> QED BY <2>4, <2>5 DEF InOrder
<1> QED BY <1>1, <1>3

LEMMA SignalSent ==
  ASSUME NEW queues \in [Side -> Seq(Packet)], NEW p \in Side,
         NEW type \in MessageTypes, NEW e \in End, NEW m, m = Signal(type, e)
  PROVE  m \in Packet /\ Adds(Sent(queues, p, type, e, 0), queues, p, m)
<1>1. 0 \in 0 .. MaxData /\ m = Message(type, e, 0)
  BY BoundsAssumption DEF Signal
<1> QED BY <1>1, SentHolds

(* An end that is open is of the last call with its id that got that far.   *)
LEMMA OpenIsLatest ==
  ASSUME OneOpener, Good, NEW e \in End, holder[e] = "open",
         NEW f \in End, holder[f] # "none", IdOf(f) = IdOf(e)
  PROVE  f.pair.n <= e.pair.n
<1>1. /\ e.pair \in Pair /\ f.pair \in Pair /\ f.pair.id = e.pair.id
      /\ promise[f.pair] # "none" /\ holder[AcceptorOf(f.pair)] # "none"
  BY UsedIsCalled, EndFields, PeerOf DEF Good, Wire, Lives, IdOf
<1>2. CASE e = OpenerOf(e.pair)
  <2>1. Newest(e.pair)
    BY <1>1, <1>2 DEF Live, Good, Wire, Generations
  <2> QED BY <1>1, <2>1 DEF Newest
<1>3. CASE e = AcceptorOf(e.pair)
  BY <1>1, <1>3, OneAcceptor
<1> QED BY <1>2, <1>3, PeerOf

(* What an end writes, or its close, comes after all there is of its id.    *)
LEMMA LastFromEnd ==
  ASSUME OneOpener, Good, NEW e \in End, holder[e] = "open",
         NEW m, m.from = e, m.id = IdOf(e),
         m.type = "Close" \/ (m.type = "Data" /\ m.n = written[e] + 1),
         NEW x \in Packet, In(link[Other(At(e))], x)
  PROVE  InOrder(x, m)
<1> SUFFICES ASSUME x.id = m.id PROVE InOrder(x, m)
  BY DEF InOrder
<1>1. /\ At(e) \in Side /\ Other(At(e)) \in Side /\ Other(Other(At(e))) = At(e)
      /\ e.pair \in Pair /\ e.pair.id = IdOf(e)
  BY EndFields, OtherSide DEF IdOf
<1>2. /\ Sense(Other(At(e)), x) /\ x.from \in End /\ x.from.pair \in Pair
      /\ x.from.pair.id = x.id /\ At(x.from) = At(e) /\ promise[x.from.pair] # "none"
      /\ x.type \in MessageTypes
  BY <1>1, InIs DEF Packet
<1>3. x.from.role = e.role /\ (x.from.pair = e.pair => x.from = e)
  <2>1. x.from.pair.by = e.pair.by
    BY <1>1, <1>2, SamePair
  <2>2. x.from.role = e.role
    BY <1>1, <1>2, <2>1, OtherSide, EndFields DEF At, End
  <2> QED BY <2>2, <1>2 DEF End
<1>4. x.from.pair.n <= e.pair.n
  <2>1. CASE e = OpenerOf(e.pair)
    <3>1. Newest(e.pair)
      BY <1>1, <2>1 DEF Live, Good, Wire, Generations
    <3> QED BY <1>1, <1>2, <3>1 DEF Newest
  <2>2. CASE e = AcceptorOf(e.pair)
    <3>1. x.type # "Open"
      BY <1>1, <1>2, <1>3, <2>2, PairEnds DEF Sense
    <3>2. holder[x.from] # "none" /\ IdOf(x.from) = IdOf(e)
      BY <1>1, <1>2, <3>1 DEF Sense, MessageTypes, IdOf
    <3> QED BY <1>2, <3>2, OpenIsLatest
  <2> QED BY <2>1, <2>2, PeerOf
<1>5. ASSUME x.from.pair = e.pair
      PROVE  /\ x.type # "Close"
             /\ x.type = "Data" /\ m.type = "Data" => x.n < m.n
  <2>1. x.from = e
    BY <1>3, <1>5
  <2>2. x.type # "Close"
    BY <1>2, <2>1 DEF Sense
  <2>3. x.type = "Data" => x.n \in 1 .. written[e]
    BY <1>2, <2>1 DEF Sense
  <2>4. written[e] \in 0 .. MaxData
    BY DEF Good, Inv, TypeOK
  <2> QED BY <2>2, <2>3, <2>4
<1> QED BY <1>4, <1>5 DEF InOrder

-----------------------------------------------------------------------------
LEMMA OpenWire ==
  ASSUME OneOpener, Good, NEW p \in Side, NEW id \in Id, Open(p, id)
  PROVE  Wire'
<1>1. PICK k : k = [by |-> p, id |-> id, n |-> opens + 1]
  OBVIOUS
<1>2. /\ k \in Pair /\ k.by = p /\ k.id = id /\ k.n = opens + 1
      /\ opens \in Nat /\ p \notin closed
      /\ OpenerOf(k) \in End /\ AcceptorOf(k) \in End
      /\ At(OpenerOf(k)) = p /\ At(AcceptorOf(k)) = Other(p)
  <2>1. k \in Pair /\ p \notin closed /\ opens \in Nat
    BY <1>1, BoundsAssumption DEF Open, Pair, Good, Inv, TypeOK
  <2> QED BY <1>1, <2>1, EndsOf
<1>3. /\ pendingOpen' = [pendingOpen EXCEPT ![p] = @ \cup {k}]
      /\ promise' = [promise EXCEPT ![k] = "waiting"]
      /\ link' = Sent(link, p, "Open", OpenerOf(k), 0)
      /\ opens' = opens + 1 /\ openChannels' = openChannels /\ closed' = closed
      /\ holder' = holder /\ written' = written /\ read' = read
  BY <1>1 DEF Open, holders
<1>4. /\ pendingOpen \in [Side -> SUBSET Pair]
      /\ promise \in [Pair -> {"none", "waiting", "resolved", "rejected"}]
      /\ link \in [Side -> Seq(Packet)]
  BY DEF Good, Inv, TypeOK
<1>5. /\ promise[k] = "none" /\ holder[OpenerOf(k)] = "none" /\ holder[AcceptorOf(k)] = "none"
      /\ \A j \in Pair : promise[j] # "none" => j.n <= opens /\ j # k
  <2>1. \A j \in Pair : promise[j] # "none" => j.n <= opens /\ j # k
    BY <1>2, PairEnds DEF Good, Wire, Lives
  <2>2. promise[k] = "none"
    BY <1>2, <2>1
  <2> QED BY <1>2, <2>1, <2>2 DEF Good, Wire, Lives
<1>6. PICK m : m = Signal("Open", OpenerOf(k))
  OBVIOUS
<1>7. /\ m \in Packet /\ m.type = "Open" /\ m.id = id /\ m.from = OpenerOf(k)
      /\ m.from.pair = k
  BY <1>2, <1>6, PairEnds, SignalIs DEF MessageTypes
<1>8. /\ \A q \in Side : \A x :
           In(link'[q], x) <=> In(link[q], x) \/ (q = Other(p) /\ q \notin closed /\ x = m)
      /\ \A q \in Side : \A x, y :
           Before(link'[q], x, y)
             => Before(link[q], x, y) \/ (q = Other(p) /\ In(link[q], x) /\ y = m)
  <2>1. 0 \in 0 .. MaxData /\ "Open" \in MessageTypes
    BY BoundsAssumption DEF MessageTypes
  <2>2. m = Message("Open", OpenerOf(k), 0)
    BY <1>6 DEF Signal
  <2>3. Adds(link', link, p, m)
    BY <1>2, <1>3, <1>4, <2>1, <2>2, SentHolds
  <2> QED BY <2>3 DEF Adds
<1>9. \A j \in Pair : j.id = id => ~Live(OpenerOf(j))
  <2> SUFFICES ASSUME NEW j \in Pair, j.id = id, Live(OpenerOf(j)) PROVE FALSE
    OBVIOUS
  <2>1. j.by = p /\ OpenerOf(j) \in End /\ At(OpenerOf(j)) = p /\ IdOf(OpenerOf(j)) = id
    BY <1>2, SamePair, EndsOf
  <2>2. ChannelFor(p, id) = {} /\ PendingFor(p, id) = {}
    BY DEF Open
  <2> QED BY <2>1, <2>2, PairEnds DEF Live, ChannelFor, PendingFor, Good, Wire, Registered
<1>10. /\ \A e \in End : Live(e)' <=> Live(e) \/ e = OpenerOf(k)
       /\ \A j \in Pair : j.id # id => (Newest(j)' <=> Newest(j))
       /\ Newest(k)'
  <2>1. \A e \in End : Live(e)' <=> Live(e) \/ e = OpenerOf(k)
    <3> SUFFICES ASSUME NEW e \in End PROVE Live(e)' <=> Live(e) \/ e = OpenerOf(k)
      OBVIOUS
    <3>1. e.pair \in Pair /\ (e.role = "opener" /\ e.pair = k <=> e = OpenerOf(k))
      BY <1>2, EndFields DEF End, OpenerOf
    <3>2. promise'[e.pair] = IF e.pair = k THEN "waiting" ELSE promise[e.pair]
      BY <1>3, <1>4, <3>1
    <3> QED BY <1>3, <1>5, <3>1, <3>2 DEF Live
  <2>2. \A j \in Pair : j.id # id => (Newest(j)' <=> Newest(j))
    BY <1>2, <1>3, <1>4 DEF Newest
  <2>3. Newest(k)'
    BY <1>2, <1>3, <1>4, <1>5, PairEnds DEF Newest
  <2> QED BY <2>1, <2>2, <2>3
<1>11. Registered'
  BY <1>2, <1>3, <1>4, <1>5, OtherSide DEF Good, Wire, Registered, Sent
<1>12. Lives'
  <2>1. \A j \in Pair : promise'[j] = IF j = k THEN "waiting" ELSE promise[j]
    BY <1>3, <1>4
  <2>2. ASSUME NEW j \in Pair
        PROVE  /\ promise'[j] = "resolved" <=> holder[OpenerOf(j)] # "none"
               /\ promise'[j] = "rejected" => j.by \in closed
               /\ promise'[j] # "none" => j.n <= opens'
               /\ holder[OpenerOf(j)] # "none" => holder[AcceptorOf(j)] # "none"
               /\ holder[AcceptorOf(j)] # "none" => promise'[j] # "none"
    <3>1. CASE j = k
      BY <1>2, <1>3, <1>5, <2>1, <3>1
    <3>2. CASE j # k
      BY <1>2, <1>3, <2>1, <3>2, PairEnds DEF Good, Wire, Lives
    <3> QED BY <3>1, <3>2
  <2>3. \A e \in End :
          /\ holder[e] = "none" => written[e] = 0 /\ read[e] = <<>>
          /\ holder[e] = "told" => holder[Peer(e)] = "closed" \/ At(e) \in closed
    BY DEF Good, Wire, Lives
  <2> QED BY <1>3, <2>2, <2>3 DEF Lives
<1>13. Senses'
  <2> SUFFICES ASSUME NEW q \in Side, NEW x \in Packet, In(link'[q], x) PROVE Sense(q, x)'
    BY DEF Senses
  <2>1. CASE In(link[q], x)
    <3>1. Sense(q, x) /\ x.from.pair \in Pair /\ x.from.pair # k
      BY <1>5, <2>1, InIs
    <3> QED BY <1>3, <1>4, <3>1 DEF Sense
  <2>2. CASE x = m /\ q = Other(p)
    <3>1. promise'[k] = "waiting" /\ holder'[AcceptorOf(k)] = "none"
      BY <1>2, <1>3, <1>4, <1>5
    <3> QED BY <1>2, <1>6, <1>7, <2>2, <3>1, OtherSide DEF Sense, IdOf
  <2> QED BY <1>8, <2>1, <2>2
<1>14. Ordered'
  <2> SUFFICES ASSUME NEW q \in Side, NEW x \in Packet, NEW y \in Packet,
                      Before(link'[q], x, y)
               PROVE  InOrder(x, y)
    BY DEF Ordered, InOrder
  <2>1. CASE Before(link[q], x, y)
    BY <2>1 DEF Good, Wire, Ordered
  <2>2. CASE In(link[q], x) /\ y = m
    <3>1. x.from.pair \in Pair /\ x.from.pair # k /\ x.from.pair.n <= opens
      BY <1>5, <2>2, InIs
    <3> QED BY <1>2, <1>7, <2>2, <3>1, PairEnds DEF InOrder
  <2> QED BY <1>8, <2>1, <2>2
<1>15. Underway'
  <2>1. ASSUME NEW j \in Pair, promise'[j] = "waiting"
        PROVE  IF holder'[AcceptorOf(j)] = "none"
               THEN Other(j.by) \in closed' \/ In(link'[Other(j.by)], Signal("Open", OpenerOf(j)))
               ELSE In(link'[j.by], Signal("AckOpen", AcceptorOf(j)))
    <3>1. j.by \in Side /\ Other(j.by) \in Side
      BY EndsOf, OtherSide
    <3>2. CASE j = k
      BY <1>2, <1>3, <1>5, <1>6, <1>8, <3>1, <3>2
    <3>3. CASE j # k
      BY <1>3, <1>4, <1>8, <2>1, <3>1, <3>3 DEF Good, Wire, Underway
    <3> QED BY <3>2, <3>3
  <2>2. ASSUME NEW e \in End, Live(e)', holder'[Peer(e)] = "closed"
        PROVE  In(link'[At(e)], Signal("Close", Peer(e)))
    <3>1. Live(e)
      BY <1>2, <1>3, <1>5, <1>10, <2>2, PairEnds
    <3> QED BY <1>3, <1>8, <2>2, <3>1, EndFields DEF Good, Wire, Underway
  <2> QED BY <2>1, <2>2 DEF Underway
<1>16. DataUnderway'
  <2> SUFFICES ASSUME NEW e \in End, Live(e)'
               PROVE  /\ Len(read[e]) <= written[Peer(e)]
                      /\ \A n \in Len(read[e]) + 1 .. written[Peer(e)] :
                           In(link'[At(e)], Datum(Peer(e), n))
                      /\ \A n \in 0 .. MaxData :
                           In(link'[At(e)], Datum(Peer(e), n)) => n > Len(read[e])
    BY <1>3 DEF DataUnderway
  <2>0. Peer(e) \in End /\ At(e) \in Side
    BY PeerOf, EndFields
  <2>1. ASSUME NEW n \in 0 .. MaxData, In(link'[At(e)], Datum(Peer(e), n))
        PROVE  In(link[At(e)], Datum(Peer(e), n))
    <3>1. Datum(Peer(e), n) # m
      BY <1>7, <2>0, DatumIs
    <3> QED BY <1>8, <2>0, <2>1, <3>1
  <2>2. CASE Live(e)
    BY <1>8, <2>0, <2>1, <2>2 DEF Good, Wire, DataUnderway
  <2>3. CASE e = OpenerOf(k)
    <3>1. read[e] = <<>> /\ Peer(e) = AcceptorOf(k) /\ written[Peer(e)] = 0
      BY <1>2, <1>5, <2>3, PairEnds DEF Good, Wire, Lives
    <3>2. ASSUME NEW n \in 0 .. MaxData PROVE ~In(link[At(e)], Datum(Peer(e), n))
      <4>1. Datum(Peer(e), n) \in Packet /\ Datum(Peer(e), n).from.pair = k
        <5>1. Peer(e).pair = k
          BY <1>2, <2>3, PeerOf, PairEnds
        <5> QED BY <2>0, <5>1, DatumIs
      <4> QED BY <1>5, <2>0, <4>1, InIs
    <3>3. Len(read[e]) = 0
      BY <3>1
    <3> QED BY <2>1, <3>1, <3>2, <3>3
  <2> QED BY <1>10, <2>2, <2>3
<1>17. Generations'
  <2>1. ASSUME NEW j \in Pair, Live(OpenerOf(j))' PROVE Newest(j)'
    <3>1. CASE j = k
      BY <1>10, <3>1
    <3>2. CASE j # k
      <4>1. Live(OpenerOf(j))
        BY <1>3, <1>4, <2>1, <3>2, PairEnds DEF Live
      <4> QED BY <1>9, <1>10, <4>1 DEF Good, Wire, Generations
    <3> QED BY <3>1, <3>2
  <2>2. ASSUME NEW q \in Side, NEW j \in Pair, In(link'[q], Signal("Open", OpenerOf(j)))
        PROVE  Newest(j)'
    <3> DEFINE x == Signal("Open", OpenerOf(j))
    <3>1. x \in Packet /\ x.type = "Open" /\ x.from = OpenerOf(j) /\ x.from.pair = j
      BY EndsOf, PairEnds, SignalIs DEF MessageTypes
    <3>2. CASE x = m
      BY <1>7, <1>10, <3>1, <3>2
    <3>3. CASE In(link[q], x)
      <4>1. Newest(j) /\ promise[j] \in {"waiting", "rejected"}
        BY <3>1, <3>3, InIs DEF Sense, Good, Wire, Generations
      <4>2. j.id # id
        <5> SUFFICES ASSUME j.id = id PROVE FALSE
          OBVIOUS
        <5>1. j.by = p
          BY <1>2, SamePair
        <5>2. promise[j] = "waiting"
          BY <1>2, <4>1, <5>1 DEF Good, Wire, Lives
        <5> QED BY <1>9, <5>2, PairEnds DEF Live
      <4> QED BY <1>10, <4>1, <4>2
    <3> HIDE DEF x
    <3> QED BY <1>8, <2>2, <3>2, <3>3 DEF x
  <2>3. ASSUME NEW j \in Pair, holder'[AcceptorOf(j)] = "open"
        PROVE  Newest(j)' \/ In(link'[Other(j.by)], Signal("Close", OpenerOf(j)))
    <3>1. /\ Newest(j) \/ In(link[Other(j.by)], Signal("Close", OpenerOf(j)))
          /\ holder[AcceptorOf(j)] = "open" /\ Other(j.by) \in Side
      BY <1>3, <2>3, EndsOf, OtherSide DEF Good, Wire, Generations
    <3>2. CASE In(link[Other(j.by)], Signal("Close", OpenerOf(j)))
      BY <1>8, <3>1, <3>2
    <3>3. CASE Newest(j) /\ j.id # id
      BY <1>10, <3>3
    <3>4. CASE j.id = id
      <4>1. j.by = p /\ ~Live(OpenerOf(j)) /\ promise[j] # "none"
        BY <1>2, <1>9, <3>1, <3>4, SamePair DEF Good, Wire, Lives
      <4>2. promise[j] = "resolved"
        BY <1>2, <1>4, <4>1, PairEnds DEF Live, Good, Wire, Lives
      <4>3. OpenerOf(j) \in End /\ AcceptorOf(j) \in End
        BY EndsOf
      <4>4. holder[OpenerOf(j)] # "none" /\ holder[OpenerOf(j)] # "open"
        BY <4>1, <4>2 DEF Live, Good, Wire, Lives
      <4>5. holder[OpenerOf(j)] # "told"
        BY <1>2, <3>1, <4>1, <4>3, EndsOf, PairEnds DEF Good, Wire, Lives
      <4>6. holder[OpenerOf(j)] = "closed"
        BY <4>3, <4>4, <4>5 DEF Good, Inv, TypeOK
      <4>7. Live(AcceptorOf(j))
        BY <3>1 DEF Live
      <4> QED BY <1>8, <3>1, <4>3, <4>6, <4>7, EndsOf, PairEnds DEF Good, Wire, Underway
    <3> QED BY <3>1, <3>2, <3>3, <3>4
  <2>4. ASSUME NEW e \in End, NEW x \in Packet,
               holder'[e] # "none", In(link'[At(e)], x), x.id = IdOf(e)
        PROVE  e.pair.n <= x.from.pair.n
    <3>1. CASE In(link[At(e)], x)
      BY <1>3, <2>4, <3>1 DEF Good, Wire, Generations
    <3>2. CASE x = m
      <4>1. e.pair.n <= opens /\ e.pair.n \in Nat
        BY <1>3, <2>4, UsedIsCalled, EndFields, PairEnds
      <4> QED BY <1>2, <1>7, <3>2, <4>1
    <3> QED BY <1>8, <2>4, <3>1, <3>2, EndFields
  <2> QED BY <2>1, <2>2, <2>3, <2>4 DEF Generations
<1> QED BY <1>11, <1>12, <1>13, <1>14, <1>15, <1>16, <1>17 DEF Wire

LEMMA WriteWire ==
  ASSUME OneOpener, Good, NEW e \in End, Write(e)
  PROVE  Wire'
<1>1. PICK m : m = Datum(e, written[e] + 1)
  OBVIOUS
<1>2. /\ holder[e] = "open" /\ written[e] + 1 \in 0 .. MaxData /\ written[e] \in Nat
      /\ At(e) \in Side /\ At(e) = Other(Other(At(e))) /\ At(e) # Other(At(e))
      /\ Other(At(e)) \in Side /\ At(e) \notin closed
      /\ link \in [Side -> Seq(Packet)] /\ written \in [End -> 0 .. MaxData]
  <2>1. /\ holder[e] = "open" /\ written[e] < MaxData /\ written[e] \in 0 .. MaxData
        /\ link \in [Side -> Seq(Packet)] /\ written \in [End -> 0 .. MaxData]
    BY DEF Write, Good, Inv, TypeOK
  <2>2. At(e) \notin closed
    BY <2>1, LiveIsUp DEF Live
  <2> QED BY <2>1, <2>2, EndFields, OtherSide, BoundsAssumption
<1>3. /\ written' = [written EXCEPT ![e] = @ + 1]
      /\ link' = Sent(link, At(e), "Data", e, written[e] + 1)
      /\ pendingOpen' = pendingOpen /\ openChannels' = openChannels /\ closed' = closed
      /\ opens' = opens /\ promise' = promise /\ holder' = holder /\ read' = read
  BY DEF Write, maps
<1>4. /\ m \in Packet /\ m.type = "Data" /\ m.id = e.pair.id /\ m.from = e
      /\ m.n = written[e] + 1
  BY <1>1, <1>2, DatumIs
<1>5. /\ \A q \in Side : \A x :
           In(link'[q], x) <=> In(link[q], x) \/ (q = Other(At(e)) /\ q \notin closed /\ x = m)
      /\ \A q \in Side : \A x, y :
           Before(link'[q], x, y)
             => Before(link[q], x, y) \/ (q = Other(At(e)) /\ In(link[q], x) /\ y = m)
  <2>1. m = Message("Data", e, written[e] + 1) /\ "Data" \in MessageTypes
    BY <1>1 DEF Datum, MessageTypes
  <2>2. Adds(link', link, At(e), m)
    BY <1>2, <1>3, <2>1, SentHolds
  <2> QED BY <2>2 DEF Adds
<1>6. Registered'
  BY <1>2, <1>3, OtherSide DEF Good, Wire, Registered, Sent
<1>7. Lives'
  BY <1>2, <1>3 DEF Good, Wire, Lives
<1>8. Senses'
  <2> SUFFICES ASSUME NEW q \in Side, NEW x \in Packet, In(link'[q], x) PROVE Sense(q, x)'
    BY DEF Senses
  <2>1. CASE In(link[q], x)
    <3>1. Sense(q, x) /\ x.from \in End
      BY <2>1, InIs
    <3>2. \A n : n \in 1 .. written[x.from] => n \in 1 .. written'[x.from]
      BY <1>2, <1>3, <3>1
    <3> QED BY <1>3, <3>1, <3>2 DEF Sense
  <2>2. CASE x = m /\ q = Other(At(e))
    <3>1. m.n \in 1 .. written'[e]
      BY <1>2, <1>3, <1>4
    <3> QED BY <1>2, <1>3, <1>4, <2>2, <3>1 DEF Sense, IdOf
  <2> QED BY <1>5, <2>1, <2>2
<1>9. Ordered'
  <2> SUFFICES ASSUME NEW q \in Side, NEW x \in Packet, NEW y \in Packet,
                      Before(link'[q], x, y)
               PROVE  InOrder(x, y)
    BY DEF Ordered, InOrder
  <2>1. CASE Before(link[q], x, y)
    BY <2>1 DEF Good, Wire, Ordered
  <2>2. CASE q = Other(At(e)) /\ In(link[q], x) /\ y = m
    BY <1>2, <1>4, <2>2, LastFromEnd DEF IdOf
  <2> QED BY <1>5, <2>1, <2>2
<1>10. Underway'
  <2>1. ASSUME NEW j \in Pair, promise'[j] = "waiting"
        PROVE  IF holder'[AcceptorOf(j)] = "none"
               THEN Other(j.by) \in closed' \/ In(link'[Other(j.by)], Signal("Open", OpenerOf(j)))
               ELSE In(link'[j.by], Signal("AckOpen", AcceptorOf(j)))
    <3>1. j.by \in Side /\ Other(j.by) \in Side
      BY EndsOf, OtherSide
    <3> QED BY <1>3, <1>5, <2>1, <3>1 DEF Good, Wire, Underway
  <2>2. ASSUME NEW f \in End, Live(f)', holder'[Peer(f)] = "closed"
        PROVE  In(link'[At(f)], Signal("Close", Peer(f)))
    <3>1. Live(f)
      BY <1>3, <2>2 DEF Live
    <3> QED BY <1>3, <1>5, <2>2, <3>1, EndFields DEF Good, Wire, Underway
  <2> QED BY <2>1, <2>2 DEF Underway
<1>11. DataUnderway'
  <2> SUFFICES ASSUME NEW f \in End, Live(f)'
               PROVE  /\ Len(read[f]) <= written'[Peer(f)]
                      /\ \A n \in Len(read[f]) + 1 .. written'[Peer(f)] :
                           In(link'[At(f)], Datum(Peer(f), n))
                      /\ \A n \in 0 .. MaxData :
                           In(link'[At(f)], Datum(Peer(f), n)) => n > Len(read[f])
    BY <1>3 DEF DataUnderway
  <2>1. Live(f)
    BY <1>3 DEF Live
  <2>2. /\ Peer(f) \in End /\ At(f) \in Side /\ At(f) \notin closed /\ Len(read[f]) \in Nat
        /\ At(f) = Other(At(Peer(f)))
    <3>1. read[f] \in Seq([from : End, n : 0 .. MaxData])
      BY DEF Good, Inv, TypeOK
    <3>2. Len(read[f]) \in Nat
      BY <3>1
    <3> QED BY <2>1, <3>2, PeerOf, EndFields, LiveIsUp
  <2>3. /\ Len(read[f]) <= written[Peer(f)]
        /\ \A n \in Len(read[f]) + 1 .. written[Peer(f)] : In(link[At(f)], Datum(Peer(f), n))
        /\ \A n \in 0 .. MaxData : In(link[At(f)], Datum(Peer(f), n)) => n > Len(read[f])
    BY <2>1 DEF Good, Wire, DataUnderway
  <2>4. CASE Peer(f) = e
    <3>1. written'[Peer(f)] = written[e] + 1
      BY <1>2, <1>3, <2>4
    <3>2. In(link'[At(f)], Datum(e, written[e] + 1))
      BY <1>1, <1>5, <2>2, <2>4
    <3>3. ASSUME NEW n \in Len(read[f]) + 1 .. written'[Peer(f)]
          PROVE  In(link'[At(f)], Datum(Peer(f), n))
      <4>1. CASE n = written[e] + 1
        BY <2>4, <3>2, <4>1
      <4>2. CASE n # written[e] + 1
        <5>1. n \in Len(read[f]) + 1 .. written[Peer(f)]
          BY <1>2, <2>2, <2>4, <3>1, <3>3, <4>2
        <5> QED BY <1>5, <2>2, <2>3, <5>1
      <4> QED BY <4>1, <4>2
    <3>4. ASSUME NEW n \in 0 .. MaxData, In(link'[At(f)], Datum(Peer(f), n))
          PROVE  n > Len(read[f])
      <4>1. CASE In(link[At(f)], Datum(Peer(f), n))
        BY <2>3, <4>1
      <4>2. CASE Datum(Peer(f), n) = m
        <5>1. n = written[e] + 1
          BY <1>4, <2>2, <4>2, DatumIs
        <5> QED BY <1>2, <2>2, <2>3, <2>4, <5>1
      <4> QED BY <1>5, <2>2, <3>4, <4>1, <4>2
    <3> QED BY <1>2, <2>2, <2>3, <2>4, <3>1, <3>3, <3>4
  <2>5. CASE Peer(f) # e
    <3>1. written'[Peer(f)] = written[Peer(f)]
      BY <1>2, <1>3, <2>2, <2>5
    <3>2. ASSUME NEW n \in 0 .. MaxData, In(link'[At(f)], Datum(Peer(f), n))
          PROVE  In(link[At(f)], Datum(Peer(f), n))
      <4>1. Datum(Peer(f), n) # m
        BY <1>4, <2>2, <2>5, DatumIs
      <4> QED BY <1>5, <2>2, <3>2, <4>1
    <3> QED BY <1>5, <2>2, <2>3, <3>1, <3>2
  <2> QED BY <2>4, <2>5
<1>12. Generations'
  <2>0. \A j \in Pair : Newest(j)' <=> Newest(j)
    BY <1>3 DEF Newest
  <2>1. ASSUME NEW j \in Pair, Live(OpenerOf(j))' PROVE Newest(j)'
    <3>1. Live(OpenerOf(j))
      BY <1>3, <2>1 DEF Live
    <3> QED BY <2>0, <3>1 DEF Good, Wire, Generations
  <2>2. ASSUME NEW q \in Side, NEW j \in Pair, In(link'[q], Signal("Open", OpenerOf(j)))
        PROVE  Newest(j)'
    <3>1. Signal("Open", OpenerOf(j)).type = "Open"
      BY EndsOf, SignalIs DEF MessageTypes
    <3>2. In(link[q], Signal("Open", OpenerOf(j)))
      BY <1>4, <1>5, <2>2, <3>1
    <3> QED BY <2>0, <3>2 DEF Good, Wire, Generations
  <2>3. ASSUME NEW j \in Pair, holder'[AcceptorOf(j)] = "open"
        PROVE  Newest(j)' \/ In(link'[Other(j.by)], Signal("Close", OpenerOf(j)))
    <3>1. Other(j.by) \in Side
      BY EndsOf, OtherSide
    <3> QED BY <1>3, <1>5, <2>0, <2>3, <3>1 DEF Good, Wire, Generations
  <2>4. ASSUME NEW f \in End, NEW x \in Packet,
               holder'[f] # "none", In(link'[At(f)], x), x.id = IdOf(f)
        PROVE  f.pair.n <= x.from.pair.n
    <3>1. CASE In(link[At(f)], x)
      BY <1>3, <2>4, <3>1 DEF Good, Wire, Generations
    <3>2. CASE x = m
      BY <1>2, <1>3, <1>4, <2>4, <3>2, OpenIsLatest DEF IdOf
    <3> QED BY <1>5, <2>4, <3>1, <3>2, EndFields
  <2> QED BY <2>1, <2>2, <2>3, <2>4 DEF Generations
<1> QED BY <1>6, <1>7, <1>8, <1>9, <1>10, <1>11, <1>12 DEF Wire

LEMMA CloseWire ==
  ASSUME OneOpener, Good, NEW e \in End, CloseChannel(e)
  PROVE  Wire'
<1>1. PICK m : m = Signal("Close", e)
  OBVIOUS
<1>2. /\ holder[e] = "open" /\ IdOf(e) \in Id /\ e \in openChannels[At(e)]
      /\ At(e) \in Side /\ At(e) = Other(Other(At(e))) /\ At(e) # Other(At(e))
      /\ Other(At(e)) \in Side /\ At(e) \notin closed
      /\ link \in [Side -> Seq(Packet)] /\ openChannels \in [Side -> SUBSET End]
      /\ holder \in [End -> {"none", "open", "closed", "told"}]
  <2>1. /\ holder[e] = "open" /\ link \in [Side -> Seq(Packet)]
        /\ openChannels \in [Side -> SUBSET End]
        /\ holder \in [End -> {"none", "open", "closed", "told"}]
    BY DEF CloseChannel, Good, Inv, TypeOK
  <2>2. At(e) \notin closed /\ e \in openChannels[At(e)]
    BY <2>1, LiveIsUp DEF Live, Good, Wire, Registered
  <2> QED BY <2>1, <2>2, EndFields, OtherSide
<1>3. /\ holder' = [holder EXCEPT ![e] = "closed"]
      /\ openChannels' = [openChannels EXCEPT ![At(e)] = @ \ {e}]
      /\ link' = Sent(link, At(e), "Close", e, 0)
      /\ pendingOpen' = pendingOpen /\ closed' = closed /\ opens' = opens
      /\ promise' = promise /\ written' = written /\ read' = read
  <2>1. ChannelFor(At(e), IdOf(e)) = {e}
    BY <1>2 DEF ChannelFor, Good, Inv, Maps, OnePerId
  <2> QED BY <2>1 DEF CloseChannel, DeleteChannel
<1>4. /\ m \in Packet /\ m.type = "Close" /\ m.id = e.pair.id /\ m.from = e
  BY <1>1, SignalIs DEF MessageTypes
<1>5. /\ \A q \in Side : \A x :
           In(link'[q], x) <=> In(link[q], x) \/ (q = Other(At(e)) /\ q \notin closed /\ x = m)
      /\ \A q \in Side : \A x, y :
           Before(link'[q], x, y)
             => Before(link[q], x, y) \/ (q = Other(At(e)) /\ In(link[q], x) /\ y = m)
  <2>1. Adds(link', link, At(e), m)
    BY <1>1, <1>2, <1>3, SignalSent DEF MessageTypes
  <2> QED BY <2>1 DEF Adds
<1>6. /\ holder'[e] = "closed" /\ \A f \in End : f # e => holder'[f] = holder[f]
      /\ \A f \in End : Live(f)' <=> Live(f) /\ f # e
      /\ \A j \in Pair : Newest(j)' <=> Newest(j)
  <2>1. holder'[e] = "closed" /\ \A f \in End : f # e => holder'[f] = holder[f]
    BY <1>2, <1>3
  <2>2. e.role = "opener" => promise[e.pair] = "resolved"
    BY <1>2, PeerOf, PairEnds, EndFields DEF Good, Wire, Lives
  <2>3. \A f \in End : Live(f)' <=> Live(f) /\ f # e
    BY <1>3, <2>1, <2>2 DEF Live
  <2>4. \A j \in Pair : Newest(j)' <=> Newest(j)
    BY <1>3 DEF Newest
  <2> QED BY <2>1, <2>3, <2>4
<1>7. Registered'
  <2>1. \A q \in Side : \A f : f \in openChannels'[q] <=> f \in openChannels[q] /\ f # e
    BY <1>2, <1>3 DEF Good, Wire, Registered
  <2>2. \A f \in End : holder'[f] = "open" <=> f \in openChannels'[At(f)]
    BY <1>6, <2>1, EndFields DEF Good, Wire, Registered
  <2>3. \A q \in closed : link'[q] = link[q]
    BY <1>3 DEF Sent
  <2>4. \A q \in closed : q \in Side
    BY DEF Good, Inv, TypeOK
  <2> QED BY <1>3, <2>1, <2>2, <2>3, <2>4 DEF Good, Wire, Registered
<1>8. Lives'
  <2>1. \A f \in End : /\ holder'[f] = "none" <=> holder[f] = "none"
                       /\ holder[f] = "closed" => holder'[f] = "closed"
                       /\ holder'[f] = "told" => holder[f] = "told"
    BY <1>2, <1>6
  <2>2. \A f \in End : Peer(f) \in End
    BY PeerOf
  <2>3. \A k \in Pair : OpenerOf(k) \in End /\ AcceptorOf(k) \in End
    BY EndsOf
  <2> QED BY <1>3, <2>1, <2>2, <2>3 DEF Good, Wire, Lives
<1>9. Senses'
  <2> SUFFICES ASSUME NEW q \in Side, NEW x \in Packet, In(link'[q], x) PROVE Sense(q, x)'
    BY DEF Senses
  <2>1. CASE In(link[q], x)
    <3>1. Sense(q, x) /\ x.from \in End /\ AcceptorOf(x.from.pair) \in End
      BY <2>1, InIs, EndsOf
    <3>2. /\ holder[x.from] # "none" => holder'[x.from] # "none"
          /\ holder[x.from] = "closed" => holder'[x.from] = "closed"
          /\ holder[AcceptorOf(x.from.pair)] = "none" => holder'[AcceptorOf(x.from.pair)] = "none"
      BY <1>2, <1>6, <3>1
    <3> QED BY <1>3, <3>1, <3>2 DEF Sense
  <2>2. CASE x = m /\ q = Other(At(e))
    BY <1>1, <1>2, <1>4, <1>6, <2>2 DEF Sense, IdOf
  <2> QED BY <1>5, <2>1, <2>2
<1>10. Ordered'
  <2> SUFFICES ASSUME NEW q \in Side, NEW x \in Packet, NEW y \in Packet,
                      Before(link'[q], x, y)
               PROVE  InOrder(x, y)
    BY DEF Ordered, InOrder
  <2>1. CASE Before(link[q], x, y)
    BY <2>1 DEF Good, Wire, Ordered
  <2>2. CASE q = Other(At(e)) /\ In(link[q], x) /\ y = m
    BY <1>2, <1>4, <2>2, LastFromEnd DEF IdOf
  <2> QED BY <1>5, <2>1, <2>2
<1>11. Underway'
  <2>1. ASSUME NEW j \in Pair, promise'[j] = "waiting"
        PROVE  IF holder'[AcceptorOf(j)] = "none"
               THEN Other(j.by) \in closed' \/ In(link'[Other(j.by)], Signal("Open", OpenerOf(j)))
               ELSE In(link'[j.by], Signal("AckOpen", AcceptorOf(j)))
    <3>1. j.by \in Side /\ Other(j.by) \in Side /\ AcceptorOf(j) \in End
      BY EndsOf, OtherSide
    <3>2. holder'[AcceptorOf(j)] = "none" <=> holder[AcceptorOf(j)] = "none"
      BY <1>2, <1>6, <3>1
    <3> QED BY <1>3, <1>5, <2>1, <3>1, <3>2 DEF Good, Wire, Underway
  <2>2. ASSUME NEW f \in End, Live(f)', holder'[Peer(f)] = "closed"
        PROVE  In(link'[At(f)], Signal("Close", Peer(f)))
    <3>1. /\ Live(f) /\ Peer(f) \in End /\ At(f) \in Side /\ At(f) = Other(At(Peer(f)))
          /\ At(f) \notin closed
      BY <1>6, <2>2, PeerOf, EndFields, LiveIsUp
    <3>2. CASE Peer(f) = e
      BY <1>1, <1>5, <3>1, <3>2
    <3>3. CASE Peer(f) # e
      BY <1>5, <1>6, <2>2, <3>1, <3>3 DEF Good, Wire, Underway
    <3> QED BY <3>2, <3>3
  <2> QED BY <2>1, <2>2 DEF Underway
<1>12. DataUnderway'
  <2> SUFFICES ASSUME NEW f \in End, Live(f)'
               PROVE  /\ Len(read[f]) <= written[Peer(f)]
                      /\ \A n \in Len(read[f]) + 1 .. written[Peer(f)] :
                           In(link'[At(f)], Datum(Peer(f), n))
                      /\ \A n \in 0 .. MaxData :
                           In(link'[At(f)], Datum(Peer(f), n)) => n > Len(read[f])
    BY <1>3 DEF DataUnderway
  <2>1. Live(f) /\ Peer(f) \in End /\ At(f) \in Side
    BY <1>6, PeerOf, EndFields
  <2>2. ASSUME NEW n \in 0 .. MaxData, In(link'[At(f)], Datum(Peer(f), n))
        PROVE  In(link[At(f)], Datum(Peer(f), n))
    <3>1. Datum(Peer(f), n) # m
      BY <1>4, <2>1, DatumIs
    <3> QED BY <1>5, <2>1, <2>2, <3>1
  <2> QED BY <1>5, <2>1, <2>2 DEF Good, Wire, DataUnderway
<1>13. Generations'
  <2>1. ASSUME NEW j \in Pair, Live(OpenerOf(j))' PROVE Newest(j)'
    <3>1. Live(OpenerOf(j))
      BY <1>2, <1>3, <1>6, <2>1, EndsOf DEF Live
    <3> QED BY <1>6, <3>1 DEF Good, Wire, Generations
  <2>2. ASSUME NEW q \in Side, NEW j \in Pair, In(link'[q], Signal("Open", OpenerOf(j)))
        PROVE  Newest(j)'
    <3>1. Signal("Open", OpenerOf(j)).type = "Open"
      BY EndsOf, SignalIs DEF MessageTypes
    <3>2. In(link[q], Signal("Open", OpenerOf(j)))
      BY <1>4, <1>5, <2>2, <3>1
    <3> QED BY <1>6, <3>2 DEF Good, Wire, Generations
  <2>3. ASSUME NEW j \in Pair, holder'[AcceptorOf(j)] = "open"
        PROVE  Newest(j)' \/ In(link'[Other(j.by)], Signal("Close", OpenerOf(j)))
    <3>1. Other(j.by) \in Side /\ holder[AcceptorOf(j)] = "open"
      BY <1>6, <2>3, EndsOf, OtherSide
    <3> QED BY <1>5, <1>6, <3>1 DEF Good, Wire, Generations
  <2>4. ASSUME NEW f \in End, NEW x \in Packet,
               holder'[f] # "none", In(link'[At(f)], x), x.id = IdOf(f)
        PROVE  f.pair.n <= x.from.pair.n
    <3>0. holder[f] # "none"
      BY <1>2, <1>6, <2>4
    <3>1. CASE In(link[At(f)], x)
      BY <2>4, <3>0, <3>1 DEF Good, Wire, Generations
    <3>2. CASE x = m
      BY <1>2, <1>4, <2>4, <3>0, <3>2, OpenIsLatest DEF IdOf
    <3> QED BY <1>5, <2>4, <3>1, <3>2, EndFields
  <2> QED BY <2>1, <2>2, <2>3, <2>4 DEF Generations
<1> QED BY <1>7, <1>8, <1>9, <1>10, <1>11, <1>12, <1>13 DEF Wire

LEMMA AckWire ==
  ASSUME OneOpener, Good, NEW p \in Side, link[p] # <<>>, NEW m, m = Head(link[p]),
         m.type = "AckOpen", HandleAckOpen(p, m), closed' = closed, opens' = opens
  PROVE  Wire'
<1>1. PICK k : k = m.from.pair
  OBVIOUS
<1>2. /\ k \in Pair /\ p = k.by /\ m.id = k.id /\ m = Signal("AckOpen", AcceptorOf(k))
      /\ promise[k] = "waiting" /\ holder[OpenerOf(k)] = "none" /\ holder[AcceptorOf(k)] # "none"
      /\ PendingFor(p, m.id) = {k} /\ ChannelFor(p, m.id) = {}
  BY <1>1, HeadAck
<1>3. /\ OpenerOf(k) \in End /\ AcceptorOf(k) \in End /\ At(OpenerOf(k)) = p
      /\ IdOf(OpenerOf(k)) = m.id /\ OpenerOf(k).pair = k /\ OpenerOf(k) # AcceptorOf(k)
      /\ pendingOpen \in [Side -> SUBSET Pair] /\ openChannels \in [Side -> SUBSET End]
      /\ promise \in [Pair -> {"none", "waiting", "resolved", "rejected"}]
      /\ holder \in [End -> {"none", "open", "closed", "told"}]
  BY <1>2, EndsOf, PairEnds DEF Good, Inv, TypeOK
<1>4. /\ openChannels' = [openChannels EXCEPT ![p] = @ \cup {OpenerOf(k)}]
      /\ holder' = [holder EXCEPT ![OpenerOf(k)] = "open"]
      /\ pendingOpen' = [pendingOpen EXCEPT ![p] = @ \ {k}]
      /\ link' = [link EXCEPT ![p] = Tail(@)]
      /\ written' = written /\ read' = read /\ closed' = closed /\ opens' = opens
  BY <1>2, <1>3 DEF HandleAckOpen, Create, SetChannel, DeletePending
<1>5. \A j \in Pair : promise'[j] = IF j = k THEN "resolved" ELSE promise[j]
  <2>1. Settle({k}, "resolved")
    BY <1>2 DEF HandleAckOpen
  <2> QED BY <1>2, <2>1 DEF Settle
<1>6. /\ \A q \in Side : \A x : In(link'[q], x) => In(link[q], x)
      /\ \A q \in Side : \A x : In(link[q], x) => In(link'[q], x) \/ (q = p /\ x = m)
      /\ \A q \in Side : \A x, y : Before(link'[q], x, y) => Before(link[q], x, y)
      /\ ~In(link'[p], m)
  <2>1. Takes(link', p, m)
    BY <1>4, RestHolds
  <2> QED BY <2>1 DEF Takes
<1>7. /\ \A f \in End : Live(f)' <=> Live(f)
      /\ \A j \in Pair : Newest(j)' <=> Newest(j)
      /\ \A f \in End : holder'[f] = IF f = OpenerOf(k) THEN "open" ELSE holder[f]
  <2>1. \A f \in End : holder'[f] = IF f = OpenerOf(k) THEN "open" ELSE holder[f]
    BY <1>3, <1>4
  <2>2. \A f \in End : f.pair \in Pair /\ (f.role = "opener" /\ f.pair = k <=> f = OpenerOf(k))
    BY <1>2, EndFields DEF End, OpenerOf
  <2>3. \A f \in End : Live(f)' <=> Live(f)
    BY <1>2, <1>5, <2>1, <2>2 DEF Live
  <2>4. \A j \in Pair : Newest(j)' <=> Newest(j)
    BY <1>2, <1>5 DEF Newest
  <2> QED BY <2>1, <2>3, <2>4
<1>8. /\ p \notin closed
      /\ \A q \in closed : q \in Side /\ link'[q] = link[q]
  <2>1. p \notin closed
    BY DEF Good, Wire, Registered
  <2> QED BY <1>4, <2>1 DEF Good, Inv, TypeOK
<1>9. Registered'
  <2>1. \A j \in Pair : promise'[j] = "waiting" <=> j \in pendingOpen'[j.by]
    BY <1>2, <1>3, <1>4, <1>5, EndsOf DEF Good, Wire, Registered
  <2>2. \A f \in End : holder'[f] = "open" <=> f \in openChannels'[At(f)]
    BY <1>3, <1>4, <1>7, EndFields DEF Good, Wire, Registered
  <2>3. \A q \in Side : \A j \in pendingOpen'[q] : j.by = q
    BY <1>3, <1>4 DEF Good, Wire, Registered
  <2>4. \A q \in Side : \A f \in openChannels'[q] : At(f) = q
    BY <1>3, <1>4 DEF Good, Wire, Registered
  <2>5. \A q \in closed : link'[q] = <<>> /\ pendingOpen'[q] = {} /\ openChannels'[q] = {}
    BY <1>3, <1>4, <1>8 DEF Good, Wire, Registered
  <2> QED BY <1>4, <2>1, <2>2, <2>3, <2>4, <2>5 DEF Registered
<1>10. Lives'
  <2>1. ASSUME NEW j \in Pair
        PROVE  /\ promise'[j] = "resolved" <=> holder'[OpenerOf(j)] # "none"
               /\ promise'[j] = "rejected" => j.by \in closed
               /\ promise'[j] # "none" => j.n <= opens
               /\ holder'[OpenerOf(j)] # "none" => holder'[AcceptorOf(j)] # "none"
               /\ holder'[AcceptorOf(j)] # "none" => promise'[j] # "none"
    <3>1. /\ OpenerOf(j) \in End /\ AcceptorOf(j) \in End
          /\ OpenerOf(j) = OpenerOf(k) <=> j = k
          /\ AcceptorOf(j) # OpenerOf(k)
      BY <1>2, EndsOf, PairEnds
    <3>2. holder'[AcceptorOf(j)] = holder[AcceptorOf(j)]
      BY <1>7, <3>1
    <3>3. CASE j = k
      BY <1>2, <1>5, <1>7, <3>1, <3>2, <3>3 DEF Good, Wire, Lives
    <3>4. CASE j # k
      BY <1>5, <1>7, <3>1, <3>2, <3>4 DEF Good, Wire, Lives
    <3> QED BY <3>3, <3>4
  <2>2. ASSUME NEW f \in End
        PROVE  /\ holder'[f] = "none" => written[f] = 0 /\ read[f] = <<>>
               /\ holder'[f] = "told" => holder'[Peer(f)] = "closed" \/ At(f) \in closed
    <3>1. /\ holder'[f] = "none" => holder[f] = "none"
          /\ holder'[f] = "told" => holder[f] = "told"
          /\ holder[Peer(f)] = "closed" => holder'[Peer(f)] = "closed"
      BY <1>2, <1>7, PeerOf
    <3> QED BY <3>1 DEF Good, Wire, Lives
  <2> QED BY <1>4, <2>1, <2>2 DEF Lives
<1>11. Senses'
  <2> SUFFICES ASSUME NEW q \in Side, NEW x \in Packet, In(link'[q], x) PROVE Sense(q, x)'
    BY DEF Senses
  <2>1. /\ Sense(q, x) /\ x.from \in End /\ x.from.pair \in Pair /\ In(link[q], x)
        /\ At(x.from) = Other(q)
    BY <1>6, InIs
  <2>2. /\ holder[x.from] # "none" => holder'[x.from] # "none"
        /\ holder[x.from] = "closed" => holder'[x.from] = "closed"
        /\ holder'[AcceptorOf(x.from.pair)] = holder[AcceptorOf(x.from.pair)]
    BY <1>2, <1>7, <2>1, EndsOf, PairEnds
  <2>3. CASE x.from.pair # k
    BY <1>4, <1>5, <2>1, <2>2, <2>3 DEF Sense
  <2>4. CASE x.from.pair = k
    <3>1. x.type # "Open"
      BY <1>2, <2>1, <2>4 DEF Sense
    <3>2. x.type # "AckOpen"
      <4> SUFFICES ASSUME x.type = "AckOpen" PROVE FALSE
        OBVIOUS
      <4>1. x = m
        BY <1>2, <2>1, <2>4 DEF Sense
      <4>2. q = p
        <5>1. At(AcceptorOf(k)) = Other(p) /\ x.from = AcceptorOf(k)
          BY <1>2, <2>1, <2>4, EndsOf DEF Sense
        <5> QED BY <2>1, <5>1, OtherSide
      <4> QED BY <1>6, <4>1, <4>2
    <3> QED BY <1>4, <2>1, <2>2, <3>1, <3>2 DEF Sense
  <2> QED BY <2>3, <2>4
<1>12. Ordered'
  BY <1>6 DEF Good, Wire, Ordered, InOrder
<1>13. Underway'
  <2>1. ASSUME NEW j \in Pair, promise'[j] = "waiting"
        PROVE  IF holder'[AcceptorOf(j)] = "none"
               THEN Other(j.by) \in closed' \/ In(link'[Other(j.by)], Signal("Open", OpenerOf(j)))
               ELSE In(link'[j.by], Signal("AckOpen", AcceptorOf(j)))
    <3>1. /\ j.by \in Side /\ Other(j.by) \in Side /\ j # k /\ promise[j] = "waiting"
          /\ holder'[AcceptorOf(j)] = holder[AcceptorOf(j)]
      BY <1>2, <1>5, <1>7, <2>1, EndsOf, OtherSide, PairEnds
    <3>2. Signal("Open", OpenerOf(j)) # m /\ Signal("AckOpen", AcceptorOf(j)) # m
      <4>1. m.from.pair = k
        BY <1>1
      <4> QED BY <3>1, <4>1, EndsOf, PairEnds, SignalIs DEF MessageTypes
    <3> QED BY <1>4, <1>6, <3>1, <3>2 DEF Good, Wire, Underway
  <2>2. ASSUME NEW f \in End, Live(f)', holder'[Peer(f)] = "closed"
        PROVE  In(link'[At(f)], Signal("Close", Peer(f)))
    <3>1. Live(f) /\ Peer(f) \in End /\ At(f) \in Side /\ holder[Peer(f)] = "closed"
      BY <1>7, <2>2, PeerOf, EndFields
    <3>2. Signal("Close", Peer(f)) # m
      BY <3>1, SignalIs DEF MessageTypes
    <3> QED BY <1>6, <3>1, <3>2 DEF Good, Wire, Underway
  <2> QED BY <2>1, <2>2 DEF Underway
<1>14. DataUnderway'
  <2> SUFFICES ASSUME NEW f \in End, Live(f)'
               PROVE  /\ Len(read[f]) <= written[Peer(f)]
                      /\ \A n \in Len(read[f]) + 1 .. written[Peer(f)] :
                           In(link'[At(f)], Datum(Peer(f), n))
                      /\ \A n \in 0 .. MaxData :
                           In(link'[At(f)], Datum(Peer(f), n)) => n > Len(read[f])
    BY <1>4 DEF DataUnderway
  <2>1. Live(f) /\ Peer(f) \in End /\ At(f) \in Side
    BY <1>7, PeerOf, EndFields
  <2>2. ASSUME NEW n, In(link[At(f)], Datum(Peer(f), n))
        PROVE  In(link'[At(f)], Datum(Peer(f), n))
    <3>1. Datum(Peer(f), n) # m
      BY DEF Datum, Message
    <3> QED BY <1>6, <2>1, <2>2, <3>1
  <2> QED BY <1>6, <2>1, <2>2 DEF Good, Wire, DataUnderway
<1>15. Generations'
  <2>1. ASSUME NEW j \in Pair, Live(OpenerOf(j))' PROVE Newest(j)'
    <3>1. Live(OpenerOf(j))
      BY <1>2, <1>5, <1>7, <2>1, EndsOf, PairEnds DEF Live
    <3> QED BY <1>7, <3>1 DEF Good, Wire, Generations
  <2>2. ASSUME NEW q \in Side, NEW j \in Pair, In(link'[q], Signal("Open", OpenerOf(j)))
        PROVE  Newest(j)'
    BY <1>6, <1>7, <2>2 DEF Good, Wire, Generations
  <2>3. ASSUME NEW j \in Pair, holder'[AcceptorOf(j)] = "open"
        PROVE  Newest(j)' \/ In(link'[Other(j.by)], Signal("Close", OpenerOf(j)))
    <3>1. Other(j.by) \in Side /\ holder[AcceptorOf(j)] = "open"
      BY <1>2, <1>7, <2>3, EndsOf, OtherSide, PairEnds
    <3>2. Signal("Close", OpenerOf(j)) # m
      BY EndsOf, SignalIs DEF MessageTypes
    <3> QED BY <1>6, <1>7, <3>1, <3>2 DEF Good, Wire, Generations
  <2>4. ASSUME NEW f \in End, NEW x \in Packet,
               holder'[f] # "none", In(link'[At(f)], x), x.id = IdOf(f)
        PROVE  f.pair.n <= x.from.pair.n
    <3>1. CASE f = OpenerOf(k)
      <4>1. x # m /\ In(link[p], x) /\ x.id = m.id
        BY <1>3, <1>6, <2>4, <3>1
      <4>2. InOrder(m, x)
        BY <4>1, HeadIn
      <4> QED BY <1>1, <1>3, <3>1, <4>1, <4>2 DEF InOrder
    <3>2. CASE f # OpenerOf(k)
      BY <1>6, <1>7, <2>4, <3>2, EndFields DEF Good, Wire, Generations
    <3> QED BY <3>1, <3>2
  <2> QED BY <2>1, <2>2, <2>3, <2>4 DEF Generations
<1> QED BY <1>9, <1>10, <1>11, <1>12, <1>13, <1>14, <1>15 DEF Wire

LEMMA AcceptWire ==
  ASSUME OneOpener, Good, NEW p \in Side, link[p] # <<>>, NEW m, m = Head(link[p]),
         m.type = "Open", HandleOpen(p, m), closed' = closed, opens' = opens
  PROVE  Wire'
<1>1. PICK k : k = m.from.pair
  OBVIOUS
<1>2. /\ k \in Pair /\ p = Other(k.by) /\ m.id = k.id /\ m = Signal("Open", OpenerOf(k))
      /\ promise[k] \in {"waiting", "rejected"} /\ Newest(k)
      /\ holder[OpenerOf(k)] = "none" /\ holder[AcceptorOf(k)] = "none"
      /\ ChannelFor(p, m.id) = {} /\ PendingFor(p, m.id) = {}
  BY <1>1, HeadOpen
<1>3. PICK e : e = AcceptorOf(k)
  OBVIOUS
<1>4. /\ e \in End /\ OpenerOf(k) \in End /\ At(e) = p /\ IdOf(e) = m.id /\ e.pair = k
      /\ Peer(e) = OpenerOf(k) /\ Other(p) = k.by /\ k.by \in Side /\ k.by # p
      /\ e.role = "acceptor"
      /\ openChannels \in [Side -> SUBSET End]
      /\ promise \in [Pair -> {"none", "waiting", "resolved", "rejected"}]
      /\ holder \in [End -> {"none", "open", "closed", "told"}]
  BY <1>2, <1>3, EndsOf, OtherSide, PairEnds DEF Good, Inv, TypeOK
<1>5. PICK rest : rest = [link EXCEPT ![p] = Tail(@)]
  OBVIOUS
<1>6. /\ openChannels' = [openChannels EXCEPT ![p] = @ \cup {e}]
      /\ holder' = [holder EXCEPT ![e] = "open"]
      /\ pendingOpen' = pendingOpen /\ link' = Sent(rest, p, "AckOpen", e, 0)
      /\ written' = written /\ read' = read /\ closed' = closed /\ opens' = opens
      /\ Settle({}, "resolved")
  BY <1>1, <1>2, <1>3, <1>4, <1>5 DEF HandleOpen, Create, SetChannel
<1>7. promise' = promise
  BY <1>4, <1>6 DEF Settle
<1>8. PICK a : a = Signal("AckOpen", e)
  OBVIOUS
<1>9. /\ a \in Packet /\ a.type = "AckOpen" /\ a.id = k.id /\ a.from = e
  BY <1>4, <1>8, SignalIs DEF MessageTypes
<1>10. /\ \A q \in Side : \A x :
            In(link'[q], x) => In(link[q], x) \/ (q = k.by /\ q \notin closed /\ x = a)
       /\ \A q \in Side : \A x : In(link[q], x) => In(link'[q], x) \/ (q = p /\ x = m)
       /\ k.by \notin closed => In(link'[k.by], a)
       /\ \A q \in Side : \A x, y :
            Before(link'[q], x, y) => Before(link[q], x, y) \/ (q = k.by /\ In(link[q], x) /\ y = a)
       /\ ~In(link'[p], m)
  <2>1. /\ rest \in [Side -> Seq(Packet)]
        /\ \A q \in Side : \A x : In(rest[q], x) => In(link[q], x)
        /\ \A q \in Side : \A x : In(link[q], x) => In(rest[q], x) \/ (q = p /\ x = m)
        /\ \A q \in Side : \A x, y : Before(rest[q], x, y) => Before(link[q], x, y)
        /\ ~In(rest[p], m)
    <3>1. rest \in [Side -> Seq(Packet)] /\ Takes(rest, p, m)
      BY <1>5, RestHolds
    <3> QED BY <3>1 DEF Takes
  <2>2. Adds(link', rest, p, a)
    BY <1>4, <1>6, <1>8, <2>1, SignalSent DEF MessageTypes
  <2> QED BY <1>4, <2>1, <2>2 DEF Adds
<1>11. /\ \A f \in End : Live(f)' <=> Live(f) \/ f = e
       /\ \A j \in Pair : Newest(j)' <=> Newest(j)
       /\ \A f \in End : holder'[f] = IF f = e THEN "open" ELSE holder[f]
  <2>1. \A f \in End : holder'[f] = IF f = e THEN "open" ELSE holder[f]
    BY <1>4, <1>6
  <2>2. \A f \in End : Live(f)' <=> Live(f) \/ f = e
    BY <1>2, <1>3, <1>4, <1>7, <2>1 DEF Live
  <2>3. \A j \in Pair : Newest(j)' <=> Newest(j)
    BY <1>7 DEF Newest
  <2> QED BY <2>1, <2>2, <2>3
<1>12. /\ p \notin closed
       /\ \A q \in closed : q \in Side /\ link'[q] = link[q]
  <2>1. p \notin closed
    BY DEF Good, Wire, Registered
  <2>2. \A q \in closed : q \in Side /\ q # p /\ (q = Other(p) => link' = rest)
    BY <1>6, <2>1 DEF Good, Inv, TypeOK, Sent
  <2>3. \A q \in Side : q # p /\ q # Other(p) => FALSE
    BY OtherSide DEF Side, Other
  <2>4. \A q \in closed : rest[q] = link[q]
    BY <1>5, <2>2 DEF Good, Inv, TypeOK
  <2> QED BY <2>1, <2>2, <2>3, <2>4
<1>13. Registered'
  <2>1. \A f \in End : holder'[f] = "open" <=> f \in openChannels'[At(f)]
    BY <1>4, <1>6, <1>11, EndFields DEF Good, Wire, Registered
  <2>2. \A q \in Side : \A f \in openChannels'[q] : At(f) = q
    BY <1>4, <1>6 DEF Good, Wire, Registered
  <2>3. \A q \in closed : link'[q] = <<>> /\ pendingOpen'[q] = {} /\ openChannels'[q] = {}
    BY <1>4, <1>6, <1>12 DEF Good, Wire, Registered
  <2> QED BY <1>6, <1>7, <2>1, <2>2, <2>3 DEF Good, Wire, Registered
<1>14. Lives'
  <2>1. ASSUME NEW j \in Pair
        PROVE  /\ promise'[j] = "resolved" <=> holder'[OpenerOf(j)] # "none"
               /\ promise'[j] = "rejected" => j.by \in closed
               /\ promise'[j] # "none" => j.n <= opens
               /\ holder'[OpenerOf(j)] # "none" => holder'[AcceptorOf(j)] # "none"
               /\ holder'[AcceptorOf(j)] # "none" => promise'[j] # "none"
    <3>1. /\ OpenerOf(j) \in End /\ AcceptorOf(j) \in End
          /\ AcceptorOf(j) = e <=> j = k
          /\ OpenerOf(j) # e
      BY <1>2, <1>3, EndsOf, PairEnds
    <3>2. holder'[OpenerOf(j)] = holder[OpenerOf(j)]
      BY <1>11, <3>1
    <3>3. CASE j = k
      BY <1>2, <1>7, <1>11, <3>1, <3>2, <3>3 DEF Good, Wire, Lives
    <3>4. CASE j # k
      BY <1>7, <1>11, <3>1, <3>2, <3>4 DEF Good, Wire, Lives
    <3> QED BY <3>3, <3>4
  <2>2. ASSUME NEW f \in End
        PROVE  /\ holder'[f] = "none" => written[f] = 0 /\ read[f] = <<>>
               /\ holder'[f] = "told" => holder'[Peer(f)] = "closed" \/ At(f) \in closed
    <3>1. /\ holder'[f] = "none" => holder[f] = "none"
          /\ holder'[f] = "told" => holder[f] = "told"
          /\ holder[Peer(f)] = "closed" => holder'[Peer(f)] = "closed"
      BY <1>2, <1>3, <1>11, PeerOf
    <3> QED BY <3>1 DEF Good, Wire, Lives
  <2> QED BY <1>6, <2>1, <2>2 DEF Lives
<1>15. Senses'
  <2> SUFFICES ASSUME NEW q \in Side, NEW x \in Packet, In(link'[q], x) PROVE Sense(q, x)'
    BY DEF Senses
  <2>1. CASE In(link[q], x)
    <3>1. /\ Sense(q, x) /\ x.from \in End /\ x.from.pair \in Pair /\ At(x.from) = Other(q)
      BY <2>1, InIs
    <3>2. /\ holder[x.from] # "none" => holder'[x.from] # "none"
          /\ holder[x.from] = "closed" => holder'[x.from] = "closed"
      BY <1>2, <1>3, <1>11, <3>1
    <3>3. x.type = "Open" => holder'[AcceptorOf(x.from.pair)] = "none"
      <4> SUFFICES ASSUME x.type = "Open", holder'[AcceptorOf(x.from.pair)] # "none" PROVE FALSE
        OBVIOUS
      <4>1. AcceptorOf(x.from.pair) = e
        BY <1>11, <3>1, EndsOf DEF Sense
      <4>2. x.from.pair = k
        BY <1>4, <3>1, <4>1, PairEnds
      <4>3. x = m
        BY <1>2, <3>1, <4>2 DEF Sense
      <4>4. q = p
        <5>1. At(OpenerOf(k)) = Other(p) /\ x.from = OpenerOf(k)
          BY <1>2, <1>4, <3>1, <4>2, EndsOf DEF Sense
        <5> QED BY <3>1, <5>1, OtherSide
      <4>5. x # a
        BY <1>9
      <4> QED BY <1>4, <1>10, <4>3, <4>4
    <3> QED BY <1>6, <1>7, <3>1, <3>2, <3>3 DEF Sense
  <2>2. CASE x = a /\ q = k.by /\ q \notin closed
    <3>1. promise[k] = "waiting"
      BY <1>2, <2>2 DEF Good, Wire, Lives
    <3> QED BY <1>2, <1>3, <1>4, <1>7, <1>8, <1>9, <1>11, <2>2, <3>1 DEF Sense
  <2> QED BY <1>10, <2>1, <2>2
<1>16. Ordered'
  <2> SUFFICES ASSUME NEW q \in Side, NEW x \in Packet, NEW y \in Packet,
                      Before(link'[q], x, y)
               PROVE  InOrder(x, y)
    BY DEF Ordered, InOrder
  <2>1. CASE Before(link[q], x, y)
    BY <2>1 DEF Good, Wire, Ordered
  <2>2. CASE q = k.by /\ In(link[q], x) /\ y = a
    <3>1. /\ Sense(q, x) /\ x.from \in End /\ x.from.pair \in Pair /\ At(x.from) = p
          /\ x.from.pair.id = x.id /\ promise[x.from.pair] # "none" /\ x.type \in MessageTypes
      BY <1>2, <2>2, InIs DEF Packet
    <3>2. x.id = k.id => x.from.pair.n <= k.n
      BY <1>2, <3>1 DEF Newest
    <3>3. x.from.pair # k
      <4> SUFFICES ASSUME x.from.pair = k PROVE FALSE
        OBVIOUS
      <4>1. x.from = e
        <5>1. x.from = OpenerOf(k) \/ x.from = AcceptorOf(k)
          BY <3>1, PeerOf
        <5>2. At(OpenerOf(k)) # p
          BY <1>2, <1>4, EndsOf
        <5> QED BY <1>3, <3>1, <5>1, <5>2
      <4> QED BY <1>2, <1>3, <1>4, <3>1, <4>1, PairEnds DEF Sense, MessageTypes
    <3> QED BY <1>4, <1>9, <2>2, <3>2, <3>3 DEF InOrder
  <2> QED BY <1>10, <2>1, <2>2
<1>17. Underway'
  <2>1. ASSUME NEW j \in Pair, promise'[j] = "waiting"
        PROVE  IF holder'[AcceptorOf(j)] = "none"
               THEN Other(j.by) \in closed' \/ In(link'[Other(j.by)], Signal("Open", OpenerOf(j)))
               ELSE In(link'[j.by], Signal("AckOpen", AcceptorOf(j)))
    <3>1. j.by \in Side /\ Other(j.by) \in Side /\ promise[j] = "waiting"
      BY <1>7, <2>1, EndsOf, OtherSide
    <3>2. CASE j = k
      <4>1. k.by \notin closed
        BY <1>2, <3>1, <3>2 DEF Good, Wire, Registered
      <4> QED BY <1>3, <1>4, <1>8, <1>10, <1>11, <3>2, <4>1
    <3>3. CASE j # k
      <4>1. holder'[AcceptorOf(j)] = holder[AcceptorOf(j)]
        BY <1>4, <1>11, <3>3, EndsOf, PairEnds
      <4>2. m.from.pair = k
        BY <1>1
      <4>3. Signal("Open", OpenerOf(j)) # m /\ Signal("AckOpen", AcceptorOf(j)) # m
        BY <3>3, <4>2, EndsOf, PairEnds, SignalIs DEF MessageTypes
      <4> QED BY <1>6, <1>10, <3>1, <4>1, <4>3 DEF Good, Wire, Underway
    <3> QED BY <3>2, <3>3
  <2>2. ASSUME NEW f \in End, Live(f)', holder'[Peer(f)] = "closed"
        PROVE  In(link'[At(f)], Signal("Close", Peer(f)))
    <3>1. Peer(f) \in End /\ At(f) \in Side /\ Peer(f) # e /\ holder[Peer(f)] = "closed"
      BY <1>11, <2>2, PeerOf, EndFields
    <3>2. f # e
      BY <1>2, <1>4, <3>1
    <3>3. Signal("Close", Peer(f)) # m
      BY <3>1, SignalIs DEF MessageTypes
    <3> QED BY <1>10, <1>11, <2>2, <3>1, <3>2, <3>3 DEF Good, Wire, Underway
  <2> QED BY <2>1, <2>2 DEF Underway
<1>18. DataUnderway'
  <2> SUFFICES ASSUME NEW f \in End, Live(f)'
               PROVE  /\ Len(read[f]) <= written[Peer(f)]
                      /\ \A n \in Len(read[f]) + 1 .. written[Peer(f)] :
                           In(link'[At(f)], Datum(Peer(f), n))
                      /\ \A n \in 0 .. MaxData :
                           In(link'[At(f)], Datum(Peer(f), n)) => n > Len(read[f])
    BY <1>6 DEF DataUnderway
  <2>1. Peer(f) \in End /\ At(f) \in Side
    BY PeerOf, EndFields
  <2>2. \A n : Datum(Peer(f), n) # m /\ Datum(Peer(f), n) # a
    BY <1>9 DEF Datum, Message
  <2>3. CASE f # e
    <3>1. Live(f)
      BY <1>11, <2>3
    <3>2. \A n : In(link'[At(f)], Datum(Peer(f), n)) <=> In(link[At(f)], Datum(Peer(f), n))
      BY <1>10, <2>1, <2>2
    <3> QED BY <3>1, <3>2 DEF Good, Wire, DataUnderway
  <2>4. CASE f = e
    <3>1. read[f] = <<>> /\ written[Peer(f)] = 0
      BY <1>2, <1>3, <1>4, <2>4 DEF Good, Wire, Lives
    <3>2. ASSUME NEW n \in 0 .. MaxData PROVE ~In(link[At(f)], Datum(Peer(f), n))
      <4>1. /\ Datum(Peer(f), n) \in Packet /\ Datum(Peer(f), n).from = OpenerOf(k)
            /\ Datum(Peer(f), n).type = "Data"
        BY <1>4, <2>1, <2>4, DatumIs
      <4> QED BY <1>2, <2>1, <4>1, InIs DEF Sense
    <3>3. Len(read[f]) = 0
      BY <3>1
    <3> QED BY <1>10, <2>1, <2>2, <3>1, <3>2, <3>3
  <2> QED BY <2>3, <2>4
<1>19. Generations'
  <2>1. ASSUME NEW j \in Pair, Live(OpenerOf(j))' PROVE Newest(j)'
    <3>1. Live(OpenerOf(j))
      BY <1>4, <1>7, <1>11, <2>1, EndsOf, PairEnds DEF Live
    <3> QED BY <1>11, <3>1 DEF Good, Wire, Generations
  <2>2. ASSUME NEW q \in Side, NEW j \in Pair, In(link'[q], Signal("Open", OpenerOf(j)))
        PROVE  Newest(j)'
    <3>1. Signal("Open", OpenerOf(j)) # a
      BY <1>9, EndsOf, SignalIs DEF MessageTypes
    <3> QED BY <1>10, <1>11, <2>2, <3>1 DEF Good, Wire, Generations
  <2>3. ASSUME NEW j \in Pair, holder'[AcceptorOf(j)] = "open"
        PROVE  Newest(j)' \/ In(link'[Other(j.by)], Signal("Close", OpenerOf(j)))
    <3>1. CASE j = k
      BY <1>2, <1>11, <3>1
    <3>2. CASE j # k
      <4>1. Other(j.by) \in Side /\ holder[AcceptorOf(j)] = "open"
        BY <1>4, <1>11, <2>3, <3>2, EndsOf, OtherSide, PairEnds
      <4>2. Signal("Close", OpenerOf(j)) # m
        BY EndsOf, SignalIs DEF MessageTypes
      <4> QED BY <1>10, <1>11, <4>1, <4>2 DEF Good, Wire, Generations
    <3> QED BY <3>1, <3>2
  <2>4. ASSUME NEW f \in End, NEW x \in Packet,
               holder'[f] # "none", In(link'[At(f)], x), x.id = IdOf(f)
        PROVE  f.pair.n <= x.from.pair.n
    <3>1. CASE x = a /\ At(f) = k.by
      <4>1. holder[f] # "none" /\ f.pair \in Pair /\ f.pair.id = k.id
        BY <1>4, <1>9, <1>11, <2>4, <3>1, EndFields DEF IdOf
      <4>2. f.pair.n <= k.n
        BY <1>2, <4>1, UsedIsCalled DEF Newest
      <4> QED BY <1>4, <1>9, <3>1, <4>2
    <3>2. CASE In(link[At(f)], x) /\ f # e
      BY <1>11, <2>4, <3>2 DEF Good, Wire, Generations
    <3>3. CASE In(link[At(f)], x) /\ f = e
      <4>1. x # m /\ In(link[p], x) /\ x.id = m.id
        BY <1>4, <1>10, <2>4, <3>3
      <4>2. InOrder(m, x)
        BY <4>1, HeadIn
      <4> QED BY <1>1, <1>4, <3>3, <4>1, <4>2 DEF InOrder
    <3> QED BY <1>10, <2>4, <3>1, <3>2, <3>3, EndFields
  <2> QED BY <2>1, <2>2, <2>3, <2>4 DEF Generations
<1> QED BY <1>13, <1>14, <1>15, <1>16, <1>17, <1>18, <1>19 DEF Wire

LEMMA ToldWire ==
  ASSUME OneOpener, Good, NEW p \in Side, link[p] # <<>>, NEW m, m = Head(link[p]),
         m.type = "Close", HandleClose(p, m), closed' = closed, opens' = opens
  PROVE  Wire'
<1>1. PICK e : e = Peer(m.from)
  OBVIOUS
<1>2. /\ e \in End /\ At(e) = p /\ m.id = IdOf(e) /\ m.from = Peer(e) /\ m.from \in End
      /\ holder[e] = "open" => ChannelFor(p, m.id) = {e}
      /\ holder[e] # "open" => ChannelFor(p, m.id) = {} /\ ~Live(e)
  <2>1. e \in End /\ At(e) = p /\ m.id = IdOf(e) /\ m.from = Peer(e) /\ m.from \in End
    BY <1>1, HeadForEnd
  <2>2. holder[e] = "open" => ChannelFor(p, m.id) = {e}
    BY <1>1, HeadForEnd
  <2>3. holder[e] # "open" => ChannelFor(p, m.id) = {} /\ ~Live(e)
    BY <1>1, HeadForEnd
  <2> QED BY <2>1, <2>2, <2>3
<1>3. holder[Peer(e)] = "closed" /\ m = Signal("Close", Peer(e))
  BY <1>1, HeadClosed
<1>4. /\ openChannels \in [Side -> SUBSET End]
      /\ holder \in [End -> {"none", "open", "closed", "told"}]
  BY DEF Good, Inv, TypeOK
<1>5. /\ \A f \in End : holder'[f] = IF f = e /\ holder[e] = "open" THEN "told" ELSE holder[f]
      /\ \A q \in Side : \A f : f \in openChannels'[q] <=> f \in openChannels[q] /\ f # e
      /\ link' = [link EXCEPT ![p] = Tail(@)]
      /\ pendingOpen' = pendingOpen /\ promise' = promise
      /\ written' = written /\ read' = read /\ closed' = closed /\ opens' = opens
  <2>1. /\ openChannels' = [openChannels EXCEPT ![p] = @ \ ChannelFor(p, m.id)]
        /\ holder' = [f \in End |-> IF f \in ChannelFor(p, m.id) /\ holder[f] = "open"
                                    THEN "told" ELSE holder[f]]
    BY DEF HandleClose, DeleteChannel
  <2>2. \A q \in Side : e \in openChannels[q] => q = p
    BY <1>2 DEF Good, Wire, Registered
  <2>3. e \in openChannels[p] <=> holder[e] = "open"
    BY <1>2 DEF Good, Wire, Registered
  <2>4. \A q \in Side : \A f : f \in openChannels'[q] <=> f \in openChannels[q] /\ f # e
    BY <1>2, <1>4, <2>1, <2>2, <2>3
  <2>5. \A f \in End : holder'[f] = IF f = e /\ holder[e] = "open" THEN "told" ELSE holder[f]
    BY <1>2, <2>1
  <2> QED BY <2>4, <2>5 DEF HandleClose
<1>6. /\ \A q \in Side : \A x : In(link'[q], x) => In(link[q], x)
      /\ \A q \in Side : \A x : In(link[q], x) => In(link'[q], x) \/ (q = p /\ x = m)
      /\ \A q \in Side : \A x, y : Before(link'[q], x, y) => Before(link[q], x, y)
  <2>1. Takes(link', p, m)
    BY <1>5, RestHolds
  <2> QED BY <2>1 DEF Takes
<1>7. /\ \A f \in End : Live(f)' <=> Live(f) /\ f # e
      /\ \A j \in Pair : Newest(j)' <=> Newest(j)
      /\ \A f \in End : /\ holder'[f] = "none" <=> holder[f] = "none"
                        /\ holder'[f] = "closed" <=> holder[f] = "closed"
                        /\ holder'[f] = "open" <=> holder[f] = "open" /\ f # e
  <2>1. \A f \in End : f # e => (Live(f)' <=> Live(f))
    BY <1>5 DEF Live
  <2>2. ~Live(e)'
    <3>1. CASE holder[e] = "open"
      <4>1. e.role = "opener" => promise[e.pair] = "resolved"
        BY <1>2, <3>1, PeerOf, PairEnds, EndFields DEF Good, Wire, Lives
      <4> QED BY <1>2, <1>5, <3>1, <4>1 DEF Live
    <3>2. CASE holder[e] # "open"
      BY <1>2, <1>5, <3>2 DEF Live
    <3> QED BY <3>1, <3>2
  <2>3. \A f \in End : Live(f)' <=> Live(f) /\ f # e
    <3> SUFFICES ASSUME NEW f \in End PROVE Live(f)' <=> Live(f) /\ f # e
      OBVIOUS
    <3>1. CASE f = e
      BY <2>2, <3>1
    <3>2. CASE f # e
      BY <2>1, <3>2
    <3> QED BY <3>1, <3>2
  <2>4. \A j \in Pair : Newest(j)' <=> Newest(j)
    BY <1>5 DEF Newest
  <2>5. \A f \in End : /\ holder'[f] = "none" <=> holder[f] = "none"
                       /\ holder'[f] = "closed" <=> holder[f] = "closed"
                       /\ holder'[f] = "open" <=> holder[f] = "open" /\ f # e
    BY <1>5
  <2> QED BY <2>3, <2>4, <2>5
<1>8. /\ \A q \in closed : q \in Side /\ link'[q] = link[q]
  <2>1. p \notin closed
    BY DEF Good, Wire, Registered
  <2> QED BY <1>5, <2>1 DEF Good, Inv, TypeOK
<1>9. Registered'
  <2>1. \A f \in End : holder'[f] = "open" <=> f \in openChannels'[At(f)]
    BY <1>5, <1>7, EndFields DEF Good, Wire, Registered
  <2>2. \A q \in Side : \A f \in openChannels'[q] : At(f) = q
    BY <1>5 DEF Good, Wire, Registered
  <2>3. \A q \in closed : link'[q] = <<>> /\ pendingOpen'[q] = {} /\ openChannels'[q] = {}
    BY <1>5, <1>8 DEF Good, Wire, Registered
  <2> QED BY <1>5, <2>1, <2>2, <2>3 DEF Good, Wire, Registered
<1>10. Lives'
  <2>1. \A j \in Pair :
          /\ promise'[j] = "resolved" <=> holder'[OpenerOf(j)] # "none"
          /\ promise'[j] = "rejected" => j.by \in closed'
          /\ promise'[j] # "none" => j.n <= opens'
          /\ holder'[OpenerOf(j)] # "none" => holder'[AcceptorOf(j)] # "none"
          /\ holder'[AcceptorOf(j)] # "none" => promise'[j] # "none"
    <3>1. \A j \in Pair : OpenerOf(j) \in End /\ AcceptorOf(j) \in End
      BY EndsOf
    <3> QED BY <1>5, <1>7, <3>1 DEF Good, Wire, Lives
  <2>2. ASSUME NEW f \in End
        PROVE  /\ holder'[f] = "none" => written'[f] = 0 /\ read'[f] = <<>>
               /\ holder'[f] = "told" => holder'[Peer(f)] = "closed" \/ At(f) \in closed'
    <3>1. Peer(f) \in End
      BY PeerOf
    <3>2. holder'[f] = "told" => holder[f] = "told" \/ f = e
      BY <1>5
    <3> QED BY <1>3, <1>5, <1>7, <3>1, <3>2 DEF Good, Wire, Lives
  <2> QED BY <2>1, <2>2 DEF Lives
<1>11. Senses'
  <2> SUFFICES ASSUME NEW q \in Side, NEW x \in Packet, In(link'[q], x) PROVE Sense(q, x)'
    BY DEF Senses
  <2>1. /\ Sense(q, x) /\ x.from \in End /\ AcceptorOf(x.from.pair) \in End
    BY <1>6, InIs, EndsOf
  <2> QED BY <1>5, <1>7, <2>1 DEF Sense
<1>12. Ordered'
  BY <1>6 DEF Good, Wire, Ordered, InOrder
<1>13. Underway'
  <2>1. ASSUME NEW j \in Pair, promise'[j] = "waiting"
        PROVE  IF holder'[AcceptorOf(j)] = "none"
               THEN Other(j.by) \in closed' \/ In(link'[Other(j.by)], Signal("Open", OpenerOf(j)))
               ELSE In(link'[j.by], Signal("AckOpen", AcceptorOf(j)))
    <3>1. /\ j.by \in Side /\ Other(j.by) \in Side
          /\ holder'[AcceptorOf(j)] = "none" <=> holder[AcceptorOf(j)] = "none"
      BY <1>7, EndsOf, OtherSide
    <3>2. Signal("Open", OpenerOf(j)) # m /\ Signal("AckOpen", AcceptorOf(j)) # m
      BY EndsOf, SignalIs DEF MessageTypes
    <3> QED BY <1>5, <1>6, <2>1, <3>1, <3>2 DEF Good, Wire, Underway
  <2>2. ASSUME NEW f \in End, Live(f)', holder'[Peer(f)] = "closed"
        PROVE  In(link'[At(f)], Signal("Close", Peer(f)))
    <3>1. Live(f) /\ f # e /\ Peer(f) \in End /\ At(f) \in Side /\ holder[Peer(f)] = "closed"
      BY <1>7, <2>2, PeerOf, EndFields
    <3>2. Signal("Close", Peer(f)) # m
      <4>1. Signal("Close", Peer(f)).from = Peer(f) /\ Peer(Peer(f)) = f
        BY <3>1, SignalIs, PeerOf DEF MessageTypes
      <4> QED BY <1>1, <3>1, <4>1
    <3> QED BY <1>6, <3>1, <3>2 DEF Good, Wire, Underway
  <2> QED BY <2>1, <2>2 DEF Underway
<1>14. DataUnderway'
  <2> SUFFICES ASSUME NEW f \in End, Live(f)'
               PROVE  /\ Len(read[f]) <= written[Peer(f)]
                      /\ \A n \in Len(read[f]) + 1 .. written[Peer(f)] :
                           In(link'[At(f)], Datum(Peer(f), n))
                      /\ \A n \in 0 .. MaxData :
                           In(link'[At(f)], Datum(Peer(f), n)) => n > Len(read[f])
    BY <1>5 DEF DataUnderway
  <2>1. Live(f) /\ At(f) \in Side
    BY <1>7, EndFields
  <2>2. \A n : In(link'[At(f)], Datum(Peer(f), n)) <=> In(link[At(f)], Datum(Peer(f), n))
    <3>1. \A n : Datum(Peer(f), n) # m
      BY DEF Datum, Message
    <3> QED BY <1>6, <2>1, <3>1
  <2> QED BY <2>1, <2>2 DEF Good, Wire, DataUnderway
<1>15. Generations'
  <2>1. ASSUME NEW j \in Pair, Live(OpenerOf(j))' PROVE Newest(j)'
    <3>1. Live(OpenerOf(j))
      BY <1>5, <1>7, <2>1, EndsOf DEF Live
    <3> QED BY <1>7, <3>1 DEF Good, Wire, Generations
  <2>2. ASSUME NEW q \in Side, NEW j \in Pair, In(link'[q], Signal("Open", OpenerOf(j)))
        PROVE  Newest(j)'
    BY <1>6, <1>7, <2>2 DEF Good, Wire, Generations
  <2>3. ASSUME NEW j \in Pair, holder'[AcceptorOf(j)] = "open"
        PROVE  Newest(j)' \/ In(link'[Other(j.by)], Signal("Close", OpenerOf(j)))
    <3>1. Other(j.by) \in Side /\ holder[AcceptorOf(j)] = "open" /\ AcceptorOf(j) # e
      BY <1>7, <2>3, EndsOf, OtherSide
    <3>2. Signal("Close", OpenerOf(j)) # m
      <4>1. Signal("Close", OpenerOf(j)).from = OpenerOf(j) /\ Peer(OpenerOf(j)) = AcceptorOf(j)
        BY EndsOf, PairEnds, SignalIs DEF MessageTypes
      <4> QED BY <1>1, <3>1, <4>1
    <3> QED BY <1>6, <1>7, <3>1, <3>2 DEF Good, Wire, Generations
  <2>4. ASSUME NEW f \in End, NEW x \in Packet,
               holder'[f] # "none", In(link'[At(f)], x), x.id = IdOf(f)
        PROVE  f.pair.n <= x.from.pair.n
    BY <1>6, <1>7, <2>4, EndFields DEF Good, Wire, Generations
  <2> QED BY <2>1, <2>2, <2>3, <2>4 DEF Generations
<1> QED BY <1>9, <1>10, <1>11, <1>12, <1>13, <1>14, <1>15 DEF Wire

LEMMA DataWire ==
  ASSUME OneOpener, Good, NEW p \in Side, link[p] # <<>>, NEW m, m = Head(link[p]),
         m.type = "Data", HandleData(p, m), closed' = closed, opens' = opens
  PROVE  Wire'
<1>1. PICK e : e = Peer(m.from)
  OBVIOUS
<1>2. /\ e \in End /\ At(e) = p /\ m.id = IdOf(e) /\ m.from = Peer(e) /\ m.from \in End
      /\ holder[e] = "open" => ChannelFor(p, m.id) = {e}
      /\ holder[e] # "open" => ChannelFor(p, m.id) = {} /\ ~Live(e)
  <2>1. e \in End /\ At(e) = p /\ m.id = IdOf(e) /\ m.from = Peer(e) /\ m.from \in End
    BY <1>1, HeadForEnd
  <2>2. holder[e] = "open" => ChannelFor(p, m.id) = {e}
    BY <1>1, HeadForEnd
  <2>3. holder[e] # "open" => ChannelFor(p, m.id) = {} /\ ~Live(e)
    BY <1>1, HeadForEnd
  <2> QED BY <2>1, <2>2, <2>3
<1>3. PICK payload : payload = [from |-> m.from, n |-> m.n]
  OBVIOUS
<1>4. \A f \in End : read[f] \in Seq([from : End, n : 0 .. MaxData])
  BY DEF Good, Inv, TypeOK
<1>5. /\ \A f \in End : read'[f] = IF f = e /\ holder[e] = "open" THEN Append(read[f], payload)
                                                                  ELSE read[f]
      /\ link' = [link EXCEPT ![p] = Tail(@)]
      /\ pendingOpen' = pendingOpen /\ openChannels' = openChannels /\ promise' = promise
      /\ holder' = holder /\ written' = written /\ closed' = closed /\ opens' = opens
  BY <1>2, <1>3 DEF HandleData, maps
<1>6. /\ \A q \in Side : \A x : In(link'[q], x) => In(link[q], x)
      /\ \A q \in Side : \A x : In(link[q], x) => In(link'[q], x) \/ (q = p /\ x = m)
      /\ \A q \in Side : \A x, y : Before(link'[q], x, y) => Before(link[q], x, y)
      /\ ~In(link'[p], m)
  <2>1. Takes(link', p, m)
    BY <1>5, RestHolds
  <2> QED BY <2>1 DEF Takes
<1>7. /\ \A f \in End : Live(f)' <=> Live(f)
      /\ \A j \in Pair : Newest(j)' <=> Newest(j)
  BY <1>5 DEF Live, Newest
<1>8. /\ \A q \in closed : q \in Side /\ link'[q] = link[q]
  <2>1. p \notin closed
    BY DEF Good, Wire, Registered
  <2> QED BY <1>5, <2>1 DEF Good, Inv, TypeOK
<1>9. Registered'
  BY <1>5, <1>8 DEF Good, Wire, Registered
<1>10. Lives'
  <2>1. \A f \in End : holder[f] = "none" => read'[f] = read[f]
    BY <1>5
  <2> QED BY <1>5, <2>1 DEF Good, Wire, Lives
<1>11. Senses'
  BY <1>5, <1>6 DEF Good, Wire, Senses, Sense
<1>12. Ordered'
  BY <1>6 DEF Good, Wire, Ordered, InOrder
<1>13. Underway'
  <2>1. ASSUME NEW j \in Pair, promise'[j] = "waiting"
        PROVE  IF holder'[AcceptorOf(j)] = "none"
               THEN Other(j.by) \in closed' \/ In(link'[Other(j.by)], Signal("Open", OpenerOf(j)))
               ELSE In(link'[j.by], Signal("AckOpen", AcceptorOf(j)))
    <3>1. j.by \in Side /\ Other(j.by) \in Side
      BY EndsOf, OtherSide
    <3>2. Signal("Open", OpenerOf(j)) # m /\ Signal("AckOpen", AcceptorOf(j)) # m
      BY EndsOf, SignalIs DEF MessageTypes
    <3> QED BY <1>5, <1>6, <2>1, <3>1, <3>2 DEF Good, Wire, Underway
  <2>2. ASSUME NEW f \in End, Live(f)', holder'[Peer(f)] = "closed"
        PROVE  In(link'[At(f)], Signal("Close", Peer(f)))
    <3>1. Live(f) /\ Peer(f) \in End /\ At(f) \in Side
      BY <1>7, <2>2, PeerOf, EndFields
    <3>2. Signal("Close", Peer(f)) # m
      BY <3>1, SignalIs DEF MessageTypes
    <3> QED BY <1>5, <1>6, <2>2, <3>1, <3>2 DEF Good, Wire, Underway
  <2> QED BY <2>1, <2>2 DEF Underway
<1>14. DataUnderway'
  <2> SUFFICES ASSUME NEW f \in End, Live(f)'
               PROVE  /\ Len(read'[f]) <= written[Peer(f)]
                      /\ \A n \in Len(read'[f]) + 1 .. written[Peer(f)] :
                           In(link'[At(f)], Datum(Peer(f), n))
                      /\ \A n \in 0 .. MaxData :
                           In(link'[At(f)], Datum(Peer(f), n)) => n > Len(read'[f])
    BY <1>5 DEF DataUnderway
  <2>1. Live(f) /\ Peer(f) \in End /\ At(f) \in Side /\ Peer(Peer(f)) = f
    BY <1>7, PeerOf, EndFields
  <2>2. Len(read[f]) \in Nat /\ written[Peer(f)] \in 0 .. MaxData
    BY <1>4, <2>1 DEF Good, Inv, TypeOK
  <2>3. /\ Len(read[f]) <= written[Peer(f)]
        /\ \A n \in Len(read[f]) + 1 .. written[Peer(f)] : In(link[At(f)], Datum(Peer(f), n))
        /\ \A n \in 0 .. MaxData : In(link[At(f)], Datum(Peer(f), n)) => n > Len(read[f])
    BY <2>1 DEF Good, Wire, DataUnderway
  <2>4. CASE f = e
    <3>1. holder[e] = "open" /\ Live(e)
      BY <1>2, <2>1, <2>4
    <3>2. /\ m.n = Len(read[e]) + 1 /\ Len(read[e]) < written[Peer(e)]
          /\ m = Datum(Peer(e), m.n)
      BY <1>1, <3>1, HeadData
    <3>3. Len(read'[f]) = Len(read[f]) + 1
      <4>1. read'[f] = Append(read[f], payload)
        BY <1>5, <2>4, <3>1
      <4>2. read[f] \in Seq([from : End, n : 0 .. MaxData])
        BY <1>4
      <4> QED BY <4>1, <4>2
    <3>4. ASSUME NEW n \in Len(read[f]) + 2 .. written[Peer(f)]
          PROVE  In(link'[At(f)], Datum(Peer(f), n))
      <4>1. n \in Len(read[f]) + 1 .. written[Peer(f)] /\ n \in 0 .. MaxData /\ n # m.n
        BY <2>2, <2>4, <3>2, BoundsAssumption
      <4>2. Datum(Peer(f), n) # m
        BY <2>1, <4>1, DatumIs
      <4> QED BY <1>6, <2>1, <2>3, <4>1, <4>2
    <3>5. ASSUME NEW n \in 0 .. MaxData, In(link'[At(f)], Datum(Peer(f), n))
          PROVE  n > Len(read[f]) + 1
      <4>1. n > Len(read[f])
        BY <1>6, <2>1, <2>3, <3>5
      <4>2. n # m.n
        BY <1>2, <1>6, <2>4, <3>2, <3>5
      <4> QED BY <2>2, <2>4, <3>2, <4>1, <4>2
    <3> QED BY <2>2, <2>4, <3>2, <3>3, <3>4, <3>5
  <2>5. CASE f # e
    <3>1. read'[f] = read[f]
      BY <1>5, <2>5
    <3>2. ASSUME NEW n \in 0 .. MaxData PROVE Datum(Peer(f), n) # m
      <4>1. Datum(Peer(f), n).from = Peer(f)
        BY <2>1, DatumIs
      <4> QED BY <1>1, <2>1, <2>5, <4>1
    <3>3. \A n \in Len(read[f]) + 1 .. written[Peer(f)] : n \in 0 .. MaxData
      BY <2>2, BoundsAssumption
    <3> QED BY <1>6, <2>1, <2>3, <3>1, <3>2, <3>3
  <2> QED BY <2>4, <2>5
<1>15. Generations'
  <2>1. ASSUME NEW j \in Pair, Live(OpenerOf(j))' PROVE Newest(j)'
    <3>1. Live(OpenerOf(j))
      BY <1>5, <2>1 DEF Live
    <3> QED BY <1>7, <3>1 DEF Good, Wire, Generations
  <2>2. ASSUME NEW q \in Side, NEW j \in Pair, In(link'[q], Signal("Open", OpenerOf(j)))
        PROVE  Newest(j)'
    BY <1>6, <1>7, <2>2 DEF Good, Wire, Generations
  <2>3. ASSUME NEW j \in Pair, holder'[AcceptorOf(j)] = "open"
        PROVE  Newest(j)' \/ In(link'[Other(j.by)], Signal("Close", OpenerOf(j)))
    <3>1. Other(j.by) \in Side /\ Signal("Close", OpenerOf(j)) # m
      BY EndsOf, OtherSide, SignalIs DEF MessageTypes
    <3> QED BY <1>5, <1>6, <1>7, <2>3, <3>1 DEF Good, Wire, Generations
  <2>4. ASSUME NEW f \in End, NEW x \in Packet,
               holder'[f] # "none", In(link'[At(f)], x), x.id = IdOf(f)
        PROVE  f.pair.n <= x.from.pair.n
    BY <1>5, <1>6, <2>4, EndFields DEF Good, Wire, Generations
  <2> QED BY <2>1, <2>2, <2>3, <2>4 DEF Generations
<1> QED BY <1>9, <1>10, <1>11, <1>12, <1>13, <1>14, <1>15 DEF Wire

LEMMA LoseWire ==
  ASSUME OneOpener, Good, NEW p \in Side, UnderlyingChannelClose(p)
  PROVE  Wire'
<1>1. /\ pendingOpen \in [Side -> SUBSET Pair] /\ openChannels \in [Side -> SUBSET End]
      /\ link \in [Side -> Seq(Packet)] /\ closed \subseteq Side
      /\ promise \in [Pair -> {"none", "waiting", "resolved", "rejected"}]
      /\ holder \in [End -> {"none", "open", "closed", "told"}]
  BY DEF Good, Inv, TypeOK
<1>2. /\ p \notin closed /\ closed' = closed \cup {p}
      /\ \A k \in Pair : promise'[k] = IF k.by = p /\ promise[k] = "waiting" THEN "rejected"
                                                                            ELSE promise[k]
      /\ \A e \in End : holder'[e] = IF At(e) = p /\ holder[e] = "open" THEN "told" ELSE holder[e]
      /\ \A q \in Side : /\ pendingOpen'[q] = IF q = p THEN {} ELSE pendingOpen[q]
                         /\ openChannels'[q] = IF q = p THEN {} ELSE openChannels[q]
                         /\ link'[q] = IF q = p THEN <<>> ELSE link[q]
      /\ opens' = opens /\ written' = written /\ read' = read
  <2>1. \A k \in Pair : promise[k] = "waiting" => (k \in pendingOpen[p] <=> k.by = p)
    BY DEF Good, Wire, Registered
  <2>2. \A e \in End : holder[e] = "open" => (e \in openChannels[p] <=> At(e) = p)
    BY DEF Good, Wire, Registered
  <2>3. \A k \in Pair : promise'[k] = IF k.by = p /\ promise[k] = "waiting" THEN "rejected"
                                                                           ELSE promise[k]
    BY <2>1 DEF UnderlyingChannelClose, Settle
  <2>4. \A e \in End : holder'[e] = IF At(e) = p /\ holder[e] = "open" THEN "told" ELSE holder[e]
    BY <2>2 DEF UnderlyingChannelClose
  <2> QED BY <1>1, <2>3, <2>4 DEF UnderlyingChannelClose
<1>3. /\ \A f \in End : Live(f)' <=> Live(f) /\ At(f) # p
      /\ \A j \in Pair : Newest(j)' <=> Newest(j)
      /\ \A f \in End : /\ holder'[f] = "none" <=> holder[f] = "none"
                        /\ holder'[f] = "closed" <=> holder[f] = "closed"
                        /\ holder'[f] = "open" <=> holder[f] = "open" /\ At(f) # p
  <2>1. \A f \in End : Live(f)' <=> Live(f) /\ At(f) # p
    <3>1. \A f \in End : f.pair \in Pair /\ (f.role = "opener" => At(f) = f.pair.by)
      BY EndFields DEF At
    <3> QED BY <1>2, <3>1 DEF Live
  <2>2. \A j \in Pair : Newest(j)' <=> Newest(j)
    BY <1>2 DEF Newest
  <2>3. \A f \in End : /\ holder'[f] = "none" <=> holder[f] = "none"
                       /\ holder'[f] = "closed" <=> holder[f] = "closed"
                       /\ holder'[f] = "open" <=> holder[f] = "open" /\ At(f) # p
    BY <1>2
  <2> QED BY <2>1, <2>2, <2>3
<1>4. \A q \in Side : /\ \A x : In(link'[q], x) <=> In(link[q], x) /\ q # p
                      /\ \A x, y : Before(link'[q], x, y) => Before(link[q], x, y)
  BY <1>2, Nothing
<1>5. Registered'
  <2>1. \A k \in Pair : promise'[k] = "waiting" <=> k \in pendingOpen'[k.by]
    BY <1>2, EndsOf DEF Good, Wire, Registered
  <2>2. \A e \in End : holder'[e] = "open" <=> e \in openChannels'[At(e)]
    BY <1>2, EndFields DEF Good, Wire, Registered
  <2>3. \A q \in Side : (\A k \in pendingOpen'[q] : k.by = q) /\ \A e \in openChannels'[q] : At(e) = q
    BY <1>2 DEF Good, Wire, Registered
  <2>4. \A q \in closed' : link'[q] = <<>> /\ pendingOpen'[q] = {} /\ openChannels'[q] = {}
    BY <1>1, <1>2 DEF Good, Wire, Registered
  <2> QED BY <2>1, <2>2, <2>3, <2>4 DEF Registered
<1>6. Lives'
  <2>1. ASSUME NEW j \in Pair
        PROVE  /\ promise'[j] = "resolved" <=> holder'[OpenerOf(j)] # "none"
               /\ promise'[j] = "rejected" => j.by \in closed'
               /\ promise'[j] # "none" => j.n <= opens'
               /\ holder'[OpenerOf(j)] # "none" => holder'[AcceptorOf(j)] # "none"
               /\ holder'[AcceptorOf(j)] # "none" => promise'[j] # "none"
    <3>1. OpenerOf(j) \in End /\ AcceptorOf(j) \in End
      BY EndsOf
    <3> QED BY <1>2, <1>3, <3>1 DEF Good, Wire, Lives
  <2>2. ASSUME NEW f \in End
        PROVE  /\ holder'[f] = "none" => written'[f] = 0 /\ read'[f] = <<>>
               /\ holder'[f] = "told" => holder'[Peer(f)] = "closed" \/ At(f) \in closed'
    <3>1. Peer(f) \in End
      BY PeerOf
    <3>2. holder'[f] = "told" => holder[f] = "told" \/ At(f) = p
      BY <1>2
    <3> QED BY <1>2, <1>3, <3>1, <3>2 DEF Good, Wire, Lives
  <2> QED BY <2>1, <2>2 DEF Lives
<1>7. Senses'
  <2> SUFFICES ASSUME NEW q \in Side, NEW x \in Packet, In(link'[q], x) PROVE Sense(q, x)'
    BY DEF Senses
  <2>1. /\ Sense(q, x) /\ x.from \in End /\ x.from.pair \in Pair /\ q # p
        /\ At(x.from) = Other(q) /\ AcceptorOf(x.from.pair) \in End
    BY <1>4, InIs, EndsOf
  <2>2. x.type = "AckOpen" => x.from.pair.by = q
    BY <2>1, EndsOf, OtherSide DEF Sense
  <2>3. /\ promise[x.from.pair] = "rejected" => promise'[x.from.pair] = "rejected"
        /\ promise[x.from.pair] = "waiting" => promise'[x.from.pair] \in {"waiting", "rejected"}
        /\ x.type = "AckOpen" => promise'[x.from.pair] = promise[x.from.pair]
    BY <1>2, <2>1, <2>2
  <2> QED BY <1>2, <1>3, <2>1, <2>3 DEF Sense
<1>8. Ordered'
  BY <1>4 DEF Good, Wire, Ordered, InOrder
<1>9. Underway'
  <2>1. ASSUME NEW j \in Pair, promise'[j] = "waiting"
        PROVE  IF holder'[AcceptorOf(j)] = "none"
               THEN Other(j.by) \in closed' \/ In(link'[Other(j.by)], Signal("Open", OpenerOf(j)))
               ELSE In(link'[j.by], Signal("AckOpen", AcceptorOf(j)))
    <3>1. /\ j.by \in Side /\ Other(j.by) \in Side /\ promise[j] = "waiting" /\ j.by # p
          /\ holder'[AcceptorOf(j)] = "none" <=> holder[AcceptorOf(j)] = "none"
      BY <1>2, <1>3, <2>1, EndsOf, OtherSide
    <3> QED BY <1>2, <1>4, <3>1 DEF Good, Wire, Underway
  <2>2. ASSUME NEW f \in End, Live(f)', holder'[Peer(f)] = "closed"
        PROVE  In(link'[At(f)], Signal("Close", Peer(f)))
    <3>1. Live(f) /\ Peer(f) \in End /\ At(f) \in Side /\ At(f) # p /\ holder[Peer(f)] = "closed"
      BY <1>3, <2>2, PeerOf, EndFields
    <3> QED BY <1>4, <3>1 DEF Good, Wire, Underway
  <2> QED BY <2>1, <2>2 DEF Underway
<1>10. DataUnderway'
  <2> SUFFICES ASSUME NEW f \in End, Live(f)'
               PROVE  /\ Len(read[f]) <= written[Peer(f)]
                      /\ \A n \in Len(read[f]) + 1 .. written[Peer(f)] :
                           In(link'[At(f)], Datum(Peer(f), n))
                      /\ \A n \in 0 .. MaxData :
                           In(link'[At(f)], Datum(Peer(f), n)) => n > Len(read[f])
    BY <1>2 DEF DataUnderway
  <2>1. Live(f) /\ At(f) \in Side /\ At(f) # p
    BY <1>3, EndFields
  <2>2. link'[At(f)] = link[At(f)]
    BY <1>2, <2>1
  <2> QED BY <2>1, <2>2 DEF Good, Wire, DataUnderway
<1>11. Generations'
  <2>1. ASSUME NEW j \in Pair, Live(OpenerOf(j))' PROVE Newest(j)'
    <3>1. Live(OpenerOf(j))
      BY <1>2, <1>3, <2>1, EndsOf, PairEnds DEF Live
    <3> QED BY <1>3, <3>1 DEF Good, Wire, Generations
  <2>2. ASSUME NEW q \in Side, NEW j \in Pair, In(link'[q], Signal("Open", OpenerOf(j)))
        PROVE  Newest(j)'
    BY <1>3, <1>4, <2>2 DEF Good, Wire, Generations
  <2>3. ASSUME NEW j \in Pair, holder'[AcceptorOf(j)] = "open"
        PROVE  Newest(j)' \/ In(link'[Other(j.by)], Signal("Close", OpenerOf(j)))
    <3>1. Other(j.by) \in Side /\ Other(j.by) # p /\ holder[AcceptorOf(j)] = "open"
      BY <1>3, <2>3, EndsOf, OtherSide
    <3> QED BY <1>3, <1>4, <3>1 DEF Good, Wire, Generations
  <2>4. ASSUME NEW f \in End, NEW x \in Packet,
               holder'[f] # "none", In(link'[At(f)], x), x.id = IdOf(f)
        PROVE  f.pair.n <= x.from.pair.n
    BY <1>3, <1>4, <2>4, EndFields DEF Good, Wire, Generations
  <2> QED BY <2>1, <2>2, <2>3, <2>4 DEF Generations
<1> QED BY <1>5, <1>6, <1>7, <1>8, <1>9, <1>10, <1>11 DEF Wire

LEMMA GoodInit == Init => Good
<1> SUFFICES ASSUME Init PROVE Good
  OBVIOUS
<1>1. Inv
  BY InvInit
<1>2. /\ \A p \in Side : \A m, o : ~In(link[p], m) /\ ~Before(link[p], m, o)
      /\ \A e \in End : holder[e] = "none" /\ written[e] = 0 /\ read[e] = <<>> /\ ~Live(e)
      /\ \A k \in Pair : promise[k] = "none"
  BY Nothing, EndFields DEF Init, Live
<1>3. Registered
  BY <1>2, EndFields, EndsOf DEF Init, Registered
<1>4. Lives
  BY <1>2, EndsOf DEF Init, Lives
<1>5. Senses /\ Ordered
  BY <1>2 DEF Senses, Ordered
<1>6. Underway /\ DataUnderway
  BY <1>2 DEF Underway, DataUnderway
<1>7. Generations
  BY <1>2, EndsOf, EndFields DEF Generations
<1> QED BY <1>1, <1>3, <1>4, <1>5, <1>6, <1>7 DEF Good, Wire

LEMMA WireNext == OneOpener /\ Good /\ [Next]_vars => Wire'
<1> SUFFICES ASSUME OneOpener, Good, [Next]_vars PROVE Wire'
  OBVIOUS
<1>1. ASSUME NEW p \in Side, Receive(p) PROVE Wire'
  <2>1. PICK m : m = Head(link[p])
    OBVIOUS
  <2>2. link[p] # <<>> /\ closed' = closed /\ opens' = opens
    BY <1>1 DEF Receive
  <2>3. \/ m.type = "AckOpen" /\ HandleAckOpen(p, m)
        \/ m.type = "Open" /\ HandleOpen(p, m)
        \/ m.type = "Close" /\ HandleClose(p, m)
        \/ m.type = "Data" /\ HandleData(p, m)
    BY <1>1, <2>1 DEF Receive
  <2> QED BY <2>1, <2>2, <2>3, AckWire, AcceptWire, ToldWire, DataWire
<1>2. ASSUME UNCHANGED vars PROVE Wire'
  <2>1. Registered' /\ Lives'
    BY <1>2 DEF vars, maps, holders, Good, Wire, Registered, Lives
  <2>2. Senses' /\ Ordered'
    BY <1>2 DEF vars, maps, holders, Good, Wire, Senses, Sense, Ordered
  <2>3. Underway' /\ DataUnderway'
    BY <1>2 DEF vars, maps, holders, Good, Wire, Underway, DataUnderway, Live
  <2>4. Generations'
    BY <1>2 DEF vars, maps, holders, Good, Wire, Generations, Newest, Live
  <2> QED BY <2>1, <2>2, <2>3, <2>4 DEF Wire
<1> QED BY <1>1, <1>2, OpenWire, LoseWire, WriteWire, CloseWire DEF Next

LEMMA GoodNext == OneOpener /\ Good /\ [Next]_vars => Good'
<1> SUFFICES ASSUME OneOpener, Good, [Next]_vars PROVE Good'
  OBVIOUS
<1>1. Inv'
  BY TypeNext, CallsNext, MapsNext DEF Good, Inv
<1> QED BY <1>1, WireNext DEF Good

\* If no id is opened by both sides, the packets under way and the two ends
\* of every pair always fit together.
THEOREM EndsFitTogether ==
  ASSUME OneOpener
  PROVE  Spec => []Good
  BY GoodInit, GoodNext, PTL DEF Spec

LEMMA GoodAgrees == Good => EndsAgree
<1> SUFFICES ASSUME Good, closed = {}, \A p \in Side : link[p] = <<>>
             PROVE  /\ \A k \in Pair : promise[k] # "waiting"
                    /\ \A e \in End : holder[e] = "open" => holder[Peer(e)] = "open"
  BY DEF EndsAgree
<1>1. \A p \in Side : \A m : ~In(link[p], m)
  BY Nothing
<1>2. ASSUME NEW k \in Pair, promise[k] = "waiting" PROVE FALSE
  <2>1. k.by \in Side /\ Other(k.by) \in Side
    BY EndsOf, OtherSide
  <2> QED BY <1>1, <1>2, <2>1 DEF Good, Wire, Underway
<1>3. ASSUME NEW e \in End, holder[e] = "open" PROVE holder[Peer(e)] = "open"
  <2>1. Peer(e) \in End /\ At(e) \in Side /\ Peer(Peer(e)) = e /\ e.pair \in Pair
    BY PeerOf, EndFields
  <2>2. holder[Peer(e)] \in {"none", "open", "closed", "told"}
    BY <2>1 DEF Good, Inv, TypeOK
  <2>3. holder[Peer(e)] # "closed"
    BY <1>1, <1>3, <2>1 DEF Live, Good, Wire, Underway
  <2>4. holder[Peer(e)] # "told"
    BY <1>3, <2>1 DEF Good, Wire, Lives
  <2>5. holder[Peer(e)] # "none"
    <3>1. CASE e = OpenerOf(e.pair)
      BY <1>3, <2>1, <3>1, PairEnds DEF Good, Wire, Lives
    <3>2. CASE e = AcceptorOf(e.pair)
      <4>1. promise[e.pair] # "none" /\ promise[e.pair] # "waiting" /\ promise[e.pair] # "rejected"
        BY <1>2, <1>3, <2>1, UsedIsCalled DEF Good, Wire, Lives
      <4>2. promise[e.pair] = "resolved"
        BY <2>1, <4>1 DEF Good, Inv, TypeOK
      <4> QED BY <2>1, <3>2, <4>2, PairEnds DEF Good, Wire, Lives
    <3> QED BY <3>1, <3>2, PeerOf
  <2> QED BY <2>2, <2>3, <2>4, <2>5
<1> QED BY <1>2, <1>3

\* While the connection is up, the two sides agree whenever nothing is under
\* way: no open() waits, and no end is open alone.
THEOREM EndsAgreeWhenQuiet ==
  ASSUME OneOpener
  PROVE  Spec => []EndsAgree
  BY GoodInit, GoodNext, GoodAgrees, PTL DEF Spec

-----------------------------------------------------------------------------
(* The state of the pairs that the multiplexers' state stands for.          *)
States == [e \in End |-> StateOf(e)]
Pipes  == [e \in End |-> PipeTo(e)]

LEMMA StateIs ==
  ASSUME Good, NEW e \in End
  PROVE  /\ States[e] = "open" <=> holder[e] = "open"
         /\ States[e] = "closed" <=> holder[e] = "closed"
         /\ States[e] = "waiting" <=> e.role = "opener" /\ promise[e.pair] = "waiting"
         /\ States[e] \in {"waiting", "open"} <=> Live(e)
         /\ e.role = "acceptor" => (States[e] = "unused" <=> holder[e] = "none")
         /\ e.role = "opener" => (States[e] = "unused" <=> promise[e.pair] = "none")
<1>1. e.pair \in Pair
  BY EndFields
<1>2. /\ holder[e] \in {"none", "open", "closed", "told"}
      /\ promise[e.pair] \in {"none", "waiting", "resolved", "rejected"}
  BY <1>1, EndFields DEF Good, Inv, TypeOK
<1>3. e.role = "opener" => (promise[e.pair] = "resolved" <=> holder[e] # "none")
  BY <1>1, PeerOf, EndFields, PairEnds DEF Good, Wire, Lives
<1>4. States[e] = StateOf(e)
  BY DEF States
<1>5. e.role \in {"opener", "acceptor"}
  BY DEF End
<1> QED BY <1>2, <1>3, <1>4, <1>5 DEF StateOf, Live

(* The messages of e that follow its r-th, u of them.                       *)
Run(e, r, u) == [i \in 1 .. u |-> [from |-> e, n |-> r + i]]

LEMMA NoRun == \A e, r : Run(e, r, 0) = <<>>
  BY DEF Run

LEMMA RunIs ==
  ASSUME NEW e, NEW r \in Nat, NEW u \in Nat
  PROVE  /\ Run(e, r, 0) = <<>>
         /\ Run(e, r, u + 1) = Append(Run(e, r, u), [from |-> e, n |-> r + u + 1])
         /\ Run(e, r, u + 1) # <<>>
         /\ Head(Run(e, r, u + 1)) = [from |-> e, n |-> r + 1]
         /\ Tail(Run(e, r, u + 1)) = Run(e, r + 1, u)
<1> DEFINE S    == [from : {e}, n : Nat]
           last == [from |-> e, n |-> r + u + 1]
           long == Run(e, r, u + 1)
<1>1. Run(e, r, 0) = <<>>
  BY DEF Run
<1>2. ASSUME NEW b \in Nat, NEW l \in Nat
      PROVE  /\ Run(e, b, l) \in Seq(S) /\ Len(Run(e, b, l)) = l
             /\ \A i \in 1 .. l : Run(e, b, l)[i] = [from |-> e, n |-> b + i]
  BY DEF Run
<1>3. r + 1 \in Nat /\ u + 1 \in Nat /\ last \in S
  OBVIOUS
<1> HIDE DEF S
<1>4. long \in Seq(S) /\ Len(long) = u + 1 /\ last \in S
      /\ \A i \in 1 .. u + 1 : long[i] = [from |-> e, n |-> r + i]
  BY <1>2, <1>3
<1>5. long = Append(Run(e, r, u), last)
  <2> DEFINE grown == Append(Run(e, r, u), last)
  <2>1. /\ Run(e, r, u) \in Seq(S) /\ Len(Run(e, r, u)) = u
        /\ \A i \in 1 .. u : Run(e, r, u)[i] = [from |-> e, n |-> r + i]
    BY <1>2
  <2> HIDE DEF long
  <2>2. /\ grown \in Seq(S) /\ Len(grown) = u + 1 /\ grown[u + 1] = last
        /\ \A i \in 1 .. u : grown[i] = Run(e, r, u)[i]
    BY <1>4, <2>1, AppendProperties
  <2>3. ASSUME NEW i \in 1 .. u + 1 PROVE long[i] = grown[i]
    <3>1. CASE i = u + 1
      <4>1. long[u + 1] = [from |-> e, n |-> r + (u + 1)] /\ r + (u + 1) = r + u + 1
        BY <1>3, <1>4
      <4> QED BY <2>2, <3>1, <4>1
    <3>2. CASE i \in 1 .. u
      BY <1>4, <2>1, <2>2, <3>2
    <3>3. i = u + 1 \/ i \in 1 .. u
      OBVIOUS
    <3> QED BY <3>1, <3>2, <3>3
  <2> HIDE DEF grown
  <2> QED BY <1>4, <2>2, <2>3, SeqEqual DEF grown
<1> HIDE DEF long
<1>6. long # <<>> /\ Head(long) = [from |-> e, n |-> r + 1]
  BY <1>4
<1>7. Tail(long) = Run(e, r + 1, u)
  <2> DEFINE rest == Tail(long)
  <2>1. /\ Run(e, r + 1, u) \in Seq(S) /\ Len(Run(e, r + 1, u)) = u
        /\ \A i \in 1 .. u : Run(e, r + 1, u)[i] = [from |-> e, n |-> r + 1 + i]
    BY <1>2, <1>3
  <2>2. /\ rest \in Seq(S) /\ Len(rest) = u
        /\ \A i \in 1 .. u : rest[i] = long[i + 1]
    BY <1>4, <1>6, HeadTailProperties
  <2>3. \A i \in 1 .. u : rest[i] = Run(e, r + 1, u)[i]
    BY <1>4, <2>1, <2>2
  <2> HIDE DEF rest
  <2> QED BY <2>1, <2>2, <2>3, SeqEqual DEF rest
<1> QED BY <1>1, <1>5, <1>6, <1>7 DEF long

(* Of an end: its pipe; what leaves its state and its pipe as they are.      *)
LEMMA PipesAre ==
  ASSUME NEW e \in End
  PROVE  /\ States[e] = StateOf(e) /\ (States[e])' = StateOf(e)'
         /\ Pipes[e] = Run(Peer(e), Len(read[e]), Unread(e))
         /\ (Pipes[e])' = Run(Peer(e), Len(read'[e]), Unread(e)')
  BY DEF States, Pipes, PipeTo, Run

LEMMA UnreadIs ==
  ASSUME Good, NEW e \in End
  PROVE  /\ Len(read[e]) \in Nat /\ Unread(e) \in Nat
         /\ Live(e) => Len(read[e]) + Unread(e) = written[Peer(e)]
         /\ ~Live(e) => Unread(e) = 0 /\ Pipes[e] = <<>>
<1>1. Len(read[e]) \in Nat /\ written[Peer(e)] \in Nat /\ Peer(e) \in End
  BY PeerOf DEF Good, Inv, TypeOK
<1>2. Live(e) => Len(read[e]) <= written[Peer(e)]
  BY DEF Good, Wire, DataUnderway
<1>3. StateOf(e) \in {"waiting", "open"} <=> Live(e)
  BY StateIs, PipesAre
<1>4. Unread(e) \in Nat /\ (Live(e) => Len(read[e]) + Unread(e) = written[Peer(e)])
      /\ (~Live(e) => Unread(e) = 0)
  BY <1>1, <1>2, <1>3 DEF Unread
<1> QED BY <1>1, <1>4, RunIs, PipesAre

LEMMA SameEnd ==
  ASSUME NEW e \in End, holder'[e] = holder[e], promise'[e.pair] = promise[e.pair],
         read'[e] = read[e], written'[Peer(e)] = written[Peer(e)]
  PROVE  States'[e] = States[e] /\ Pipes'[e] = Pipes[e]
<1>1. StateOf(e)' = StateOf(e)
  BY DEF StateOf
<1>2. Unread(e)' = Unread(e)
  BY <1>1 DEF Unread
<1> QED BY <1>1, <1>2, PipesAre

LEMMA StatesBecome ==
  ASSUME NEW x \in End, NEW s, States'[x] = s,
         \A e \in End \ {x} : States'[e] = States[e]
  PROVE  States' = [States EXCEPT ![x] = s]
<1>1. States = [e \in End |-> States[e]] /\ States' = [e \in End |-> States'[e]]
  BY DEF States
<1> QED BY <1>1

LEMMA PipesBecome ==
  ASSUME NEW x \in End, NEW s, Pipes'[x] = s,
         \A e \in End \ {x} : Pipes'[e] = Pipes[e]
  PROVE  Pipes' = [Pipes EXCEPT ![x] = s]
<1>1. Pipes = [e \in End |-> Pipes[e]] /\ Pipes' = [e \in End |-> Pipes'[e]]
  BY DEF Pipes
<1> QED BY <1>1

LEMMA EmptyPipe ==
  ASSUME NEW e \in End, written[Peer(e)] = 0, read[e] = <<>>,
         written'[Peer(e)] = 0, read'[e] = <<>>
  PROVE  Pipes[e] = <<>> /\ Pipes'[e] = <<>>
<1>1. Len(read[e]) = 0 /\ Len(read'[e]) = 0
  OBVIOUS
<1>2. \A a, b : a = 0 /\ b = 0 => a - b = 0
  OBVIOUS
<1>3. written[Peer(e)] - Len(read[e]) = 0 /\ written'[Peer(e)] - Len(read'[e]) = 0
  BY <1>1, <1>2, Zenon
<1>4. Unread(e) = 0 /\ Unread(e)' = 0
  BY <1>3 DEF Unread
<1> QED BY <1>4, PipesAre, NoRun

-----------------------------------------------------------------------------
(* Each step of the multiplexers is a step of the pairs.                    *)

LEMMA OpenStep ==
  ASSUME OneOpener, Good, NEW p \in Side, NEW id \in Id, Open(p, id)
  PROVE  Service!Next
<1>1. PICK k : k = [by |-> p, id |-> id, n |-> opens + 1]
  OBVIOUS
<1>2. PICK e : e = OpenerOf(k)
  OBVIOUS
<1>3. /\ k \in Pair /\ k.by = p /\ p \notin closed
      /\ e \in End /\ e.pair = k /\ e.role = "opener" /\ Peer(e) = AcceptorOf(k)
  <2>1. k \in Pair /\ k.by = p /\ p \notin closed
    BY <1>1, BoundsAssumption DEF Open, Pair, Good, Inv, TypeOK
  <2> QED BY <1>2, <2>1, EndsOf, PairEnds
<1>4. /\ promise' = [promise EXCEPT ![k] = "waiting"]
      /\ closed' = closed /\ holder' = holder /\ written' = written /\ read' = read
  BY <1>1 DEF Open, holders
<1>5. /\ promise \in [Pair -> {"none", "waiting", "resolved", "rejected"}]
      /\ promise[k] = "none" /\ holder[e] = "none" /\ holder[Peer(e)] = "none"
  <2>1. opens \in Nat /\ k.n = opens + 1 /\ promise \in [Pair -> {"none", "waiting", "resolved", "rejected"}]
    BY <1>1, BoundsAssumption DEF Good, Inv, TypeOK
  <2>2. promise[k] = "none"
    BY <1>3, <2>1 DEF Good, Wire, Lives
  <2> QED BY <1>2, <1>3, <2>1, <2>2 DEF Good, Wire, Lives
<1>6. States[e] = "unused"
  BY <1>3, <1>5, StateIs
<1>7. States'[e] = "waiting"
  BY <1>3, <1>4, <1>5, PipesAre DEF StateOf
<1>8. Pipes[e] = <<>> /\ Pipes'[e] = <<>>
  <2>1. read[e] = <<>> /\ written[Peer(e)] = 0 
    BY <1>3, <1>5, PeerOf DEF Good, Wire, Lives
  <2> QED BY <1>3, <1>4, <2>1, EmptyPipe
<1>9. \A f \in End \ {e} : States'[f] = States[f] /\ Pipes'[f] = Pipes[f]
  <2> SUFFICES ASSUME NEW f \in End, f # e PROVE States'[f] = States[f] /\ Pipes'[f] = Pipes[f]
    OBVIOUS
  <2>1. CASE f.pair # k
    <3>1. promise'[f.pair] = promise[f.pair]
      BY <1>4, <1>5, <2>1, EndFields
    <3> QED BY <1>4, <3>1, SameEnd
  <2>2. CASE f.pair = k
    <3>1. f = AcceptorOf(k) /\ f.role = "acceptor"
      BY <1>2, <1>3, <2>2, PeerOf, PairEnds
    <3>2. StateOf(f)' = StateOf(f)
      BY <1>4, <3>1 DEF StateOf
    <3>3. Unread(f)' = Unread(f)
      BY <1>4, <3>2 DEF Unread
    <3> QED BY <1>4, <3>2, <3>3, PipesAre
  <2> QED BY <2>1, <2>2
<1>10. States' = [States EXCEPT ![e] = "waiting"] /\ Pipes' = Pipes
  <2>1. Pipes' = [Pipes EXCEPT ![e] = Pipes[e]]
    BY <1>3, <1>8, <1>9, PipesBecome
  <2>2. Pipes' = Pipes
    BY <2>1 DEF Pipes
  <2> QED BY <1>3, <1>7, <1>9, <2>2, StatesBecome
<1>11. Service!Open(k)
  BY <1>2, <1>3, <1>4, <1>6, <1>10
     DEF Service!Open, Service!Become, Service!OpenerOf, OpenerOf, States, Pipes
<1> QED BY <1>3, <1>11 DEF Service!Next

LEMMA ReturnStep ==
  ASSUME OneOpener, Good, NEW p \in Side, link[p] # <<>>, p \notin closed, closed' = closed,
         NEW m, m = Head(link[p]), m.type = "AckOpen", HandleAckOpen(p, m)
  PROVE  Service!Next
<1>1. PICK k : k = m.from.pair
  OBVIOUS
<1>2. PICK e : e = OpenerOf(k)
  OBVIOUS
<1>3. /\ k \in Pair /\ promise[k] = "waiting" /\ PendingFor(p, m.id) = {k}
      /\ holder[e] = "none" /\ holder[AcceptorOf(k)] # "none"
      /\ e \in End /\ e.pair = k /\ e.role = "opener" /\ Peer(e) = AcceptorOf(k)
      /\ AcceptorOf(k) \in End /\ AcceptorOf(k).role = "acceptor" /\ AcceptorOf(k).pair = k
  <2>1. /\ k \in Pair /\ promise[k] = "waiting" /\ PendingFor(p, m.id) = {k}
        /\ holder[e] = "none" /\ holder[AcceptorOf(k)] # "none"
    BY <1>1, <1>2, HeadAck
  <2> QED BY <1>2, <2>1, EndsOf, PairEnds
<1>4. /\ holder' = [holder EXCEPT ![e] = "open"] /\ written' = written /\ read' = read
      /\ promise' = [j \in Pair |-> IF j \in {k} /\ promise[j] = "waiting"
                                    THEN "resolved" ELSE promise[j]]
  BY <1>2, <1>3 DEF HandleAckOpen, Create, Settle
<1>5. /\ holder \in [End -> {"none", "open", "closed", "told"}]
      /\ holder'[e] = "open" /\ promise'[k] = "resolved"
  BY <1>3, <1>4 DEF Good, Inv, TypeOK
<1>6. States[e] = "waiting" /\ States[AcceptorOf(k)] # "unused"
  BY <1>3, StateIs
<1>7. States'[e] = "open"
  BY <1>3, <1>5, PipesAre DEF StateOf
<1>8. Pipes'[e] = Pipes[e]
  <2>1. StateOf(e) = "waiting" /\ StateOf(e)' = "open"
    BY <1>3, <1>6, <1>7, PipesAre
  <2>2. Unread(e)' = Unread(e)
    BY <1>4, <2>1 DEF Unread
  <2> QED BY <1>3, <1>4, <2>2, PipesAre
<1>9. \A f \in End \ {e} : States'[f] = States[f] /\ Pipes'[f] = Pipes[f]
  <2> SUFFICES ASSUME NEW f \in End, f # e PROVE States'[f] = States[f] /\ Pipes'[f] = Pipes[f]
    OBVIOUS
  <2>1. CASE f.pair # k
    <3>1. promise'[f.pair] = promise[f.pair] /\ holder'[f] = holder[f]
      BY <1>4, <1>5, <2>1, EndFields
    <3> QED BY <1>4, <3>1, SameEnd
  <2>2. CASE f.pair = k
    <3>1. f = AcceptorOf(k) /\ f.role = "acceptor"
      BY <1>2, <1>3, <2>2, PeerOf, PairEnds
    <3>2. holder'[f] = holder[f] /\ holder[f] # "none"
      BY <1>3, <1>4, <1>5, <3>1
    <3>3. StateOf(f)' = StateOf(f)
      BY <3>2 DEF StateOf
    <3>4. Unread(f)' = Unread(f)
      BY <1>4, <3>3 DEF Unread
    <3> QED BY <1>4, <3>3, <3>4, PipesAre
  <2> QED BY <2>1, <2>2
<1>10. States' = [States EXCEPT ![e] = "open"] /\ Pipes' = Pipes
  <2>1. Pipes' = [Pipes EXCEPT ![e] = Pipes[e]]
    BY <1>3, <1>8, <1>9, PipesBecome
  <2>2. Pipes' = Pipes
    BY <2>1 DEF Pipes
  <2> QED BY <1>3, <1>7, <1>9, <2>2, StatesBecome
<1>11. Service!Return(k)
  BY <1>2, <1>3, <1>4, <1>6, <1>10
     DEF Service!Return, Service!Become, Service!OpenerOf, Service!AcceptorOf,
         OpenerOf, AcceptorOf, States, Pipes
<1> QED BY <1>3, <1>11 DEF Service!Next

LEMMA AcceptStep ==
  ASSUME OneOpener, Good, NEW p \in Side, link[p] # <<>>, p \notin closed, closed' = closed,
         NEW m, m = Head(link[p]), m.type = "Open", HandleOpen(p, m)
  PROVE  Service!Next
<1>1. PICK k : k = m.from.pair
  OBVIOUS
<1>2. PICK e : e = AcceptorOf(k)
  OBVIOUS
<1>3. /\ k \in Pair /\ promise[k] \in {"waiting", "rejected"}
      /\ ChannelFor(p, m.id) = {} /\ PendingFor(p, m.id) = {}
      /\ holder[e] = "none" /\ holder[OpenerOf(k)] = "none" /\ At(e) = p
      /\ e \in End /\ e.pair = k /\ e.role = "acceptor" /\ Peer(e) = OpenerOf(k)
      /\ OpenerOf(k) \in End /\ OpenerOf(k).role = "opener" /\ OpenerOf(k).pair = k
  <2>1. /\ k \in Pair /\ promise[k] \in {"waiting", "rejected"} /\ p = Other(k.by)
        /\ ChannelFor(p, m.id) = {} /\ PendingFor(p, m.id) = {}
        /\ holder[e] = "none" /\ holder[OpenerOf(k)] = "none"
    BY <1>1, <1>2, HeadOpen
  <2> QED BY <1>2, <2>1, EndsOf, PairEnds
<1>4. /\ holder' = [holder EXCEPT ![e] = "open"] /\ written' = written /\ read' = read
      /\ promise' = [j \in Pair |-> IF j \in {} /\ promise[j] = "waiting"
                                    THEN "resolved" ELSE promise[j]]
  BY <1>1, <1>2, <1>3 DEF HandleOpen, Create, Settle
<1>5. /\ holder \in [End -> {"none", "open", "closed", "told"}]
      /\ holder'[e] = "open" /\ \A j \in Pair : promise'[j] = promise[j]
  BY <1>3, <1>4 DEF Good, Inv, TypeOK
<1>6. States[e] = "unused" /\ States[OpenerOf(k)] # "unused"
  BY <1>3, StateIs
<1>7. States'[e] = "open"
  BY <1>3, <1>5, PipesAre DEF StateOf
<1>8. Pipes[e] = <<>> /\ Pipes'[e] = <<>>
  <2>1. read[e] = <<>> /\ written[Peer(e)] = 0
    BY <1>3 DEF Good, Wire, Lives
  <2> QED BY <1>3, <1>4, <2>1, EmptyPipe
<1>9. \A f \in End \ {e} : States'[f] = States[f] /\ Pipes'[f] = Pipes[f]
  <2> SUFFICES ASSUME NEW f \in End, f # e PROVE States'[f] = States[f] /\ Pipes'[f] = Pipes[f]
    OBVIOUS
  <2>1. promise'[f.pair] = promise[f.pair] /\ holder'[f] = holder[f]
    BY <1>4, <1>5, EndFields
  <2> QED BY <1>4, <2>1, SameEnd
<1>10. States' = [States EXCEPT ![e] = "open"] /\ Pipes' = Pipes
  <2>1. Pipes' = [Pipes EXCEPT ![e] = Pipes[e]]
    BY <1>3, <1>8, <1>9, PipesBecome
  <2>2. Pipes' = Pipes
    BY <2>1 DEF Pipes
  <2> QED BY <1>3, <1>7, <1>9, <2>2, StatesBecome
<1>11. \E side \in Side \ closed : Service!IsAt(Service!AcceptorOf(k), side)
  <2>1. e = Service!AcceptorOf(k) /\ k.by # p
    BY <1>2, <1>3, EndsOf, OtherSide DEF Service!AcceptorOf, AcceptorOf
  <2>2. Service!IsAt(e, p)
    BY <1>3, <2>1 DEF Service!IsAt
  <2> QED BY <2>1, <2>2
<1>12. Service!Accept(k)
  BY <1>2, <1>3, <1>4, <1>6, <1>10, <1>11
     DEF Service!Accept, Service!Become, Service!OpenerOf, Service!AcceptorOf,
         OpenerOf, AcceptorOf, States, Pipes
<1> QED BY <1>3, <1>12 DEF Service!Next

LEMMA WriteStep ==
  ASSUME OneOpener, Good, NEW e \in End, Write(e)
  PROVE  Service!Next
<1>1. PICK f : f = Peer(e)
  OBVIOUS
<1>2. PICK payload : payload = [from |-> e, n |-> written[e] + 1]
  OBVIOUS
<1>3. /\ holder[e] = "open" /\ written' = [written EXCEPT ![e] = @ + 1]
      /\ closed' = closed /\ promise' = promise /\ holder' = holder /\ read' = read
      /\ written[e] < MaxData
  BY DEF Write
<1>4. /\ f \in End /\ Peer(f) = e /\ \A g \in End : g # f => Peer(g) # e
      /\ written \in [End -> 0 .. MaxData]
  BY <1>1, PeerOf DEF Good, Inv, TypeOK
<1>5. payload \in [from : End, n : 1 .. MaxData]
  BY <1>2, <1>3, <1>4, BoundsAssumption
<1>6. States[e] = "open" /\ States' = States
  BY <1>3, StateIs DEF States, StateOf
<1>7. \A g \in End \ {f} : Pipes'[g] = Pipes[g]
  <2> SUFFICES ASSUME NEW g \in End, g # f PROVE Pipes'[g] = Pipes[g]
    OBVIOUS
  <2>1. written'[Peer(g)] = written[Peer(g)]
    BY <1>3, <1>4, PeerOf
  <2> QED BY <1>3, <2>1, SameEnd
<1>8. StateOf(f)' = StateOf(f)
  BY <1>3 DEF StateOf
<1>9. Live(f) <=> StateOf(f) \in {"waiting", "open"}
  BY <1>4, StateIs, PipesAre
<1>10. ASSUME Live(f) PROVE Pipes'[f] = Append(Pipes[f], payload)
  <2>1. /\ Len(read[f]) \in Nat /\ Unread(f) \in Nat
        /\ Len(read[f]) + Unread(f) = written[e]
    BY <1>4, <1>10, UnreadIs
  <2>2. Unread(f)' = written'[e] - Len(read[f]) /\ written'[e] = written[e] + 1
    BY <1>3, <1>4, <1>8, <1>9, <1>10 DEF Unread
  <2>3. Unread(f)' = Unread(f) + 1 /\ Len(read[f]) + Unread(f) + 1 = written[e] + 1
    BY <1>4, <2>1, <2>2
  <2>4. Run(e, Len(read[f]), Unread(f) + 1) = Append(Run(e, Len(read[f]), Unread(f)), payload)
    <3>1. Run(e, Len(read[f]), Unread(f) + 1)
            = Append(Run(e, Len(read[f]), Unread(f)),
                     [from |-> e, n |-> Len(read[f]) + Unread(f) + 1])
      BY <2>1, RunIs
    <3> QED BY <1>2, <2>3, <3>1
  <2> QED BY <1>3, <1>4, <2>3, <2>4, PipesAre
<1>11. ASSUME ~Live(f) PROVE Pipes'[f] = Pipes[f]
  <2>1. Unread(f)' = Unread(f)
    BY <1>8, <1>9, <1>11 DEF Unread
  <2> QED BY <1>3, <1>4, <2>1, PipesAre
<1>12. Pipes' = [Pipes EXCEPT ![f] = IF States[f] \in {"waiting", "open"}
                                     THEN Append(@, payload) ELSE @]
  <2>1. Pipes'[f] = IF States[f] \in {"waiting", "open"}
                    THEN Append(Pipes[f], payload) ELSE Pipes[f]
    BY <1>4, <1>9, <1>10, <1>11, PipesAre
  <2>2. Pipes' = [Pipes EXCEPT ![f] = Pipes'[f]]
    BY <1>4, <1>7, PipesBecome
  <2> QED BY <1>4, <2>1, <2>2
<1>13. Service!Write(e, payload)
  BY <1>1, <1>3, <1>6, <1>12
     DEF Service!Write, Service!Peer, Service!OpenerOf, Service!AcceptorOf,
         Peer, OpenerOf, AcceptorOf, States, Pipes
<1>14. e \in Service!End
  BY DEF Service!End, End
<1> QED BY <1>5, <1>13, <1>14 DEF Service!Next

(* An end that was open is so no more, and its pipe is gone.                *)
LEMMA EndLeft ==
  ASSUME Good, NEW e \in End, NEW outcome \in {"closed", "told"},
         holder[e] = "open", holder' = [holder EXCEPT ![e] = outcome],
         promise' = promise, written' = written, read' = read
  PROVE  /\ States[e] = "open" /\ States' = [States EXCEPT ![e] = outcome]
         /\ Pipes' = [Pipes EXCEPT ![e] = <<>>]
<1>1. /\ holder \in [End -> {"none", "open", "closed", "told"}]
      /\ holder'[e] = outcome
  BY DEF Good, Inv, TypeOK
<1>2. States[e] = "open" /\ States'[e] = outcome
  BY <1>1, StateIs, PipesAre DEF StateOf
<1>3. Pipes'[e] = <<>>
  <2>1. StateOf(e)' = outcome
    BY <1>2, PipesAre
  <2>2. Unread(e)' = 0
    BY <2>1 DEF Unread
  <2> QED BY <2>2, PipesAre, NoRun
<1>4. \A f \in End \ {e} : States'[f] = States[f] /\ Pipes'[f] = Pipes[f]
  <2> SUFFICES ASSUME NEW f \in End, f # e PROVE States'[f] = States[f] /\ Pipes'[f] = Pipes[f]
    OBVIOUS
  <2>1. holder'[f] = holder[f]
    BY <1>1
  <2> QED BY <2>1, SameEnd
<1> QED BY <1>2, <1>3, <1>4, StatesBecome, PipesBecome

LEMMA CloseStep ==
  ASSUME Good, NEW e \in End, CloseChannel(e)
  PROVE  Service!Next
<1>1. /\ holder[e] = "open" /\ holder' = [holder EXCEPT ![e] = "closed"]
      /\ closed' = closed /\ promise' = promise /\ written' = written /\ read' = read
  BY DEF CloseChannel
<1>2. /\ States[e] = "open" /\ States' = [States EXCEPT ![e] = "closed"]
      /\ Pipes' = [Pipes EXCEPT ![e] = <<>>]
  BY <1>1, EndLeft
<1>3. Service!Close(e) /\ e \in Service!End
  BY <1>1, <1>2 DEF Service!Close, Service!Become, Service!End, End, States, Pipes
<1> QED BY <1>3 DEF Service!Next

LEMMA NoStep ==
  ASSUME closed' = closed, promise' = promise, holder' = holder,
         written' = written, read' = read
  PROVE  UNCHANGED Service!vars
<1>1. States' = States
  BY DEF States, StateOf
<1>2. \A f \in End : Pipes'[f] = Pipes[f]
  BY SameEnd
<1>3. Pipes' = Pipes
  BY <1>2 DEF Pipes
<1> QED BY <1>1, <1>3 DEF Service!vars, States, Pipes

LEMMA ToldStep ==
  ASSUME OneOpener, Good, NEW p \in Side, link[p] # <<>>, closed' = closed,
         NEW m, m = Head(link[p]), m.type = "Close", HandleClose(p, m)
  PROVE  [Service!Next]_(Service!vars)
<1>1. PICK e : e = Peer(m.from)
  OBVIOUS
<1>2. /\ e \in End
      /\ holder[e] = "open" => ChannelFor(p, m.id) = {e}
      /\ holder[e] # "open" => ChannelFor(p, m.id) = {}
      /\ holder[Peer(e)] = "closed" /\ (Live(e) => Len(read[e]) = written[Peer(e)])
  <2>1. e \in End
    BY <1>1, HeadIn, PeerOf
  <2>2. holder[e] = "open" => ChannelFor(p, m.id) = {e}
    BY <1>1, HeadForEnd
  <2>3. ASSUME NEW f \in ChannelFor(p, m.id) PROVE holder[e] = "open"
    <3>1. f = e /\ f \in openChannels[p] /\ At(e) = p
      BY <1>1, HeadIn, ChannelIsPeer DEF ChannelFor
    <3> QED BY <2>1, <3>1 DEF Good, Wire, Registered
  <2>4. holder[Peer(e)] = "closed" /\ (Live(e) => Len(read[e]) = written[Peer(e)])
    BY <1>1, HeadClosed
  <2> QED BY <2>1, <2>2, <2>3, <2>4
<1>3. /\ promise' = promise /\ written' = written /\ read' = read
      /\ holder' = [f \in End |-> IF f \in ChannelFor(p, m.id) /\ holder[f] = "open"
                                  THEN "told" ELSE holder[f]]
      /\ holder \in [End -> {"none", "open", "closed", "told"}]
  BY DEF HandleClose, Good, Inv, TypeOK
<1>4. CASE holder[e] # "open"
  <2>1. holder' = holder
    BY <1>2, <1>3, <1>4
  <2> QED BY <1>3, <2>1, NoStep
<1>5. CASE holder[e] = "open"
  <2>1. holder' = [holder EXCEPT ![e] = "told"]
    BY <1>2, <1>3, <1>5
  <2>2. /\ States[e] = "open" /\ States' = [States EXCEPT ![e] = "told"]
        /\ Pipes' = [Pipes EXCEPT ![e] = <<>>]
    BY <1>2, <1>3, <1>5, <2>1, EndLeft
  <2>3. States[Peer(e)] = "closed" /\ Peer(e) \in End
    BY <1>2, PeerOf, StateIs
  <2>4. Pipes[e] = <<>>
    <3>1. /\ Len(read[e]) \in Nat /\ Unread(e) \in Nat
          /\ Len(read[e]) + Unread(e) = Len(read[e])
      BY <1>2, <1>5, UnreadIs DEF Live
    <3>2. Unread(e) = 0
      BY <3>1
    <3> QED BY <1>2, <3>2, PipesAre, NoRun
  <2>5. Pipes' = Pipes
    BY <2>2, <2>4 DEF Pipes
  <2>6. Service!Told(e) /\ e \in Service!End
    BY <1>2, <1>3, <2>2, <2>3, <2>4, <2>5
       DEF Service!Told, Service!Become, Service!Peer, Service!OpenerOf, Service!AcceptorOf,
           Service!End, End, Peer, OpenerOf, AcceptorOf, States, Pipes
  <2> QED BY <2>6 DEF Service!Next
<1> QED BY <1>4, <1>5

LEMMA ReadStep ==
  ASSUME OneOpener, Good, NEW p \in Side, link[p] # <<>>, closed' = closed,
         NEW m, m = Head(link[p]), m.type = "Data", HandleData(p, m)
  PROVE  [Service!Next]_(Service!vars)
<1>1. PICK e : e = Peer(m.from)
  OBVIOUS
<1>2. /\ e \in End /\ m.from = Peer(e)
      /\ holder[e] = "open" => ChannelFor(p, m.id) = {e}
      /\ holder[e] # "open" => ChannelFor(p, m.id) = {}
  <2>1. e \in End /\ m.from = Peer(e)
    BY <1>1, HeadIn, PeerOf
  <2>2. holder[e] = "open" => ChannelFor(p, m.id) = {e}
    BY <1>1, HeadForEnd
  <2>3. ASSUME NEW f \in ChannelFor(p, m.id) PROVE holder[e] = "open"
    <3>1. f = e /\ f \in openChannels[p] /\ At(e) = p
      BY <1>1, HeadIn, ChannelIsPeer DEF ChannelFor
    <3> QED BY <2>1, <3>1 DEF Good, Wire, Registered
  <2> QED BY <2>1, <2>2, <2>3
<1>3. /\ promise' = promise /\ written' = written /\ holder' = holder
      /\ read' = [f \in End |-> IF f \in ChannelFor(p, m.id) /\ holder[f] = "open"
                                THEN Append(read[f], [from |-> m.from, n |-> m.n])
                                ELSE read[f]]
      /\ read \in [End -> Seq([from : End, n : 0 .. MaxData])]
  BY DEF HandleData, Good, Inv, TypeOK
<1>4. CASE holder[e] # "open"
  <2>1. read' = read
    BY <1>2, <1>3, <1>4
  <2> QED BY <1>3, <2>1, NoStep
<1>5. CASE holder[e] = "open"
  <2>1. PICK r : r = Len(read[e])
    OBVIOUS
  <2>2. PICK x : x = [from |-> Peer(e), n |-> r + 1]
    OBVIOUS
  <2>3. /\ Live(e) /\ m.n = r + 1 /\ r < written[Peer(e)]
        /\ r \in Nat /\ Unread(e) \in Nat /\ r + Unread(e) = written[Peer(e)]
    <3>1. Live(e)
      BY <1>5 DEF Live
    <3> QED BY <1>1, <1>2, <2>1, <3>1, HeadData, UnreadIs
  <2>4. read' = [read EXCEPT ![e] = Append(@, x)] /\ read'[e] = Append(read[e], x)
    <3>1. [from |-> m.from, n |-> m.n] = x
      BY <1>2, <2>2, <2>3
    <3> QED BY <1>2, <1>3, <1>5, <3>1
  <2>5. Len(read'[e]) = r + 1
    BY <1>2, <1>3, <2>1, <2>4
  <2>6. PICK u \in Nat : Unread(e) = u + 1
    <3>1. Unread(e) - 1 \in Nat /\ Unread(e) = (Unread(e) - 1) + 1
      BY <2>3, PeerOf DEF Good, Inv, TypeOK
    <3> QED BY <3>1
  <2>7. States[e] = "open" /\ States' = States /\ StateOf(e) = "open" /\ StateOf(e)' = "open"
    BY <1>2, <1>3, <1>5, StateIs, PipesAre DEF States, StateOf
  <2>8. Unread(e)' = u
    <3>1. Unread(e)' = written'[Peer(e)] - Len(read'[e])
      BY <2>7 DEF Unread
    <3>2. Unread(e)' = written[Peer(e)] - (r + 1) /\ written[Peer(e)] = r + (u + 1)
      BY <1>3, <2>3, <2>5, <2>6, <3>1
    <3> QED BY <2>3, <2>6, <3>2
  <2>9. /\ Pipes[e] # <<>> /\ Head(Pipes[e]) = x
        /\ Pipes'[e] = Tail(Pipes[e])
    <3>1. /\ Pipes[e] = Run(Peer(e), r, u + 1)
          /\ Pipes'[e] = Run(Peer(e), r + 1, u)
      BY <1>2, <2>1, <2>5, <2>6, <2>8, PipesAre
    <3>2. /\ Run(Peer(e), r, u + 1) # <<>>
          /\ Head(Run(Peer(e), r, u + 1)) = [from |-> Peer(e), n |-> r + 1]
          /\ Tail(Run(Peer(e), r, u + 1)) = Run(Peer(e), r + 1, u)
      BY <2>3, RunIs
    <3> QED BY <2>2, <3>1, <3>2
  <2>10. \A f \in End \ {e} : Pipes'[f] = Pipes[f]
    <3> SUFFICES ASSUME NEW f \in End, f # e PROVE Pipes'[f] = Pipes[f]
      OBVIOUS
    <3>1. read'[f] = read[f]
      BY <2>4
    <3> QED BY <1>3, <3>1, SameEnd
  <2>11. Pipes' = [Pipes EXCEPT ![e] = Tail(Pipes[e])]
    BY <1>2, <2>9, <2>10, PipesBecome
  <2>12. Service!Read(e) /\ e \in Service!End
    <3>1. States[e] = "open" /\ Pipes[e] # <<>> /\ closed' = closed /\ States' = States
      BY <2>7, <2>9
    <3>2. read' = [read EXCEPT ![e] = Append(@, Head(Pipes[e]))]
      BY <2>4, <2>9
    <3> QED BY <2>11, <3>1, <3>2, <1>2 DEF Service!Read, Service!End, End, States, Pipes
  <2> QED BY <2>12 DEF Service!Next
<1> QED BY <1>4, <1>5

LEMMA LoseStep ==
  ASSUME Good, NEW p \in Side, UnderlyingChannelClose(p)
  PROVE  Service!Next
<1>1. /\ p \notin closed /\ closed' = closed \cup {p} /\ written' = written /\ read' = read
      /\ promise' = [k \in Pair |-> IF k \in pendingOpen[p] /\ promise[k] = "waiting"
                                    THEN "rejected" ELSE promise[k]]
      /\ holder' = [e \in End |-> IF e \in openChannels[p] /\ holder[e] = "open"
                                  THEN "told" ELSE holder[e]]
  BY DEF UnderlyingChannelClose, Settle
<1>2. /\ \A k \in Pair : promise'[k] = IF promise[k] = "waiting" /\ k.by = p
                                       THEN "rejected" ELSE promise[k]
      /\ \A e \in End : holder'[e] = IF holder[e] = "open" /\ At(e) = p
                                     THEN "told" ELSE holder[e]
  <2>1. \A k \in Pair : promise[k] = "waiting" => (k \in pendingOpen[p] <=> k.by = p)
    BY DEF Good, Wire, Registered
  <2>2. \A e \in End : holder[e] = "open" => (e \in openChannels[p] <=> At(e) = p)
    BY DEF Good, Wire, Registered
  <2> QED BY <1>1, <2>1, <2>2
<1>3. ASSUME NEW e \in End, At(e) # p PROVE States'[e] = States[e] /\ Pipes'[e] = Pipes[e]
  <2>1. holder'[e] = holder[e]
    BY <1>2, <1>3
  <2>2. CASE e.role = "opener"
    <3>1. promise'[e.pair] = promise[e.pair]
      BY <1>2, <1>3, <2>2, EndFields DEF At
    <3> QED BY <1>1, <2>1, <3>1, SameEnd
  <2>3. CASE e.role = "acceptor"
    <3>1. StateOf(e)' = StateOf(e)
      BY <2>1, <2>3 DEF StateOf
    <3>2. Unread(e)' = Unread(e)
      BY <1>1, <3>1 DEF Unread
    <3> QED BY <1>1, <3>1, <3>2, PipesAre
  <2> QED BY <2>2, <2>3 DEF End
<1>4. ASSUME NEW e \in End, At(e) = p, States[e] = "waiting"
      PROVE  States'[e] = "rejected" /\ Pipes'[e] = <<>>
  <2>1. e.role = "opener" /\ promise[e.pair] = "waiting" /\ holder[e] # "open"
    BY <1>4, StateIs
  <2>2. e.pair \in Pair /\ e.pair.by = p
    BY <1>4, <2>1, EndFields DEF At
  <2>3. holder[e] = "none"
    BY <2>1, <2>2, PeerOf, PairEnds DEF Good, Wire, Lives
  <2>4. StateOf(e)' = "rejected"
    BY <1>2, <2>1, <2>2, <2>3 DEF StateOf
  <2>5. Unread(e)' = 0
    BY <2>4 DEF Unread
  <2> QED BY <2>4, <2>5, PipesAre, NoRun
<1>5. ASSUME NEW e \in End, At(e) = p, States[e] = "open"
      PROVE  States'[e] = "told" /\ Pipes'[e] = <<>>
  <2>1. holder[e] = "open"
    BY <1>5, StateIs
  <2>2. StateOf(e)' = "told"
    BY <1>2, <1>5, <2>1 DEF StateOf
  <2>3. Unread(e)' = 0
    BY <2>2 DEF Unread
  <2> QED BY <2>2, <2>3, PipesAre, NoRun
<1>6. ASSUME NEW e \in End, At(e) = p, States[e] \notin {"waiting", "open"}
      PROVE  States'[e] = States[e] /\ Pipes'[e] = Pipes[e]
  <2>1. holder'[e] = holder[e]
    BY <1>2, <1>6, StateIs
  <2>2. CASE e.role = "opener"
    <3>1. promise'[e.pair] = promise[e.pair]
      BY <1>2, <1>6, <2>2, StateIs, EndFields
    <3> QED BY <1>1, <2>1, <3>1, SameEnd
  <2>3. CASE e.role = "acceptor"
    <3>1. StateOf(e)' = StateOf(e)
      BY <2>1, <2>3 DEF StateOf
    <3>2. Unread(e)' = Unread(e)
      BY <1>1, <3>1 DEF Unread
    <3> QED BY <1>1, <3>1, <3>2, PipesAre
  <2> QED BY <2>2, <2>3 DEF End
<1> DEFINE lost == {e \in End : At(e) = p /\ States[e] \in {"waiting", "open"}}
<1>7. ASSUME NEW e \in End
      PROVE  /\ States'[e] = IF e \in lost
                             THEN IF States[e] = "waiting" THEN "rejected" ELSE "told"
                             ELSE States[e]
             /\ Pipes'[e] = IF e \in lost THEN <<>> ELSE Pipes[e]
  BY <1>3, <1>4, <1>5, <1>6
<1>8. lost = {e \in End : Service!IsAt(e, p) /\ States[e] \in {"waiting", "open"}}
  <2>1. ASSUME NEW e \in End PROVE Service!IsAt(e, p) <=> At(e) = p
    <3>1. e.pair \in Pair /\ e.pair.by \in Side /\ (e.role = "opener" \/ e.role = "acceptor")
      BY EndFields DEF End
    <3>2. Service!IsAt(e, p) <=> (e.role = "opener" <=> e.pair.by = p)
      BY <3>1 DEF Service!IsAt
    <3>3. CASE e.role = "opener"
      BY <3>2, <3>3 DEF At
    <3>4. CASE e.role = "acceptor"
      BY <3>1, <3>2, <3>4 DEF At, Other, Side
    <3> QED BY <3>1, <3>3, <3>4
  <2> QED BY <2>1
<1>9. /\ States' = [e \in End |-> IF e \in lost
                                  THEN IF States[e] = "waiting" THEN "rejected" ELSE "told"
                                  ELSE States[e]]
      /\ Pipes' = [e \in End |-> IF e \in lost THEN <<>> ELSE Pipes[e]]
  <2>1. States' = [e \in End |-> States'[e]] /\ Pipes' = [e \in End |-> Pipes'[e]]
    BY DEF States, Pipes
  <2> HIDE DEF lost
  <2> QED BY <1>7, <2>1
<1>10. Side \ closed' = (Side \ closed) \ {p}
  BY <1>1
<1>11. Service!End = End
  BY DEF Service!End, End
<1>12. Service!Lose(p)
  <2> HIDE DEF lost
  <2> QED BY <1>1, <1>8, <1>9, <1>10, <1>11 DEF Service!Lose, States, Pipes
<1> QED BY <1>12 DEF Service!Next

LEMMA ServiceInit == Init => Service!Init
<1> SUFFICES ASSUME Init PROVE Service!Init
  OBVIOUS
<1>1. \A e \in End : States[e] = "unused"
  BY EndFields, PipesAre DEF Init, StateOf
<1>2. \A e \in End : Pipes[e] = <<>>
  <2> SUFFICES ASSUME NEW e \in End PROVE Pipes[e] = <<>>
    OBVIOUS
  <2>1. StateOf(e) = "unused"
    BY <1>1, PipesAre
  <2>2. Unread(e) = 0
    BY <2>1 DEF Unread
  <2> QED BY <2>2, PipesAre, NoRun
<1>3. States = [e \in End |-> "unused"] /\ Pipes = [e \in End |-> <<>>]
  BY <1>1, <1>2 DEF States, Pipes
<1> QED BY <1>3 DEF Init, Service!Init, Service!End, End, States, Pipes

LEMMA ServiceNext ==
  ASSUME OneOpener, Good, [Next]_vars
  PROVE  [Service!Next]_(Service!vars)
<1>1. ASSUME NEW p \in Side, Receive(p) PROVE [Service!Next]_(Service!vars)
  <2>1. PICK m : m = Head(link[p])
    OBVIOUS
  <2>2. link[p] # <<>> /\ p \notin closed /\ closed' = closed
    BY <1>1 DEF Receive
  <2>3. \/ m.type = "AckOpen" /\ HandleAckOpen(p, m)
        \/ m.type = "Open" /\ HandleOpen(p, m)
        \/ m.type = "Close" /\ HandleClose(p, m)
        \/ m.type = "Data" /\ HandleData(p, m)
    BY <1>1, <2>1 DEF Receive
  <2> QED BY <2>1, <2>2, <2>3, ReturnStep, AcceptStep, ToldStep, ReadStep
<1>2. ASSUME UNCHANGED vars PROVE [Service!Next]_(Service!vars)
  BY <1>2, NoStep DEF vars, holders
<1> QED BY <1>1, <1>2, OpenStep, WriteStep, CloseStep, LoseStep DEF Next

\* If no id is opened by both sides, the multiplexers give each open() call
\* a private pair of pipes: an end reads what the other end of its own pair
\* wrote, all of it and in order, whatever else uses the connection, and
\* hears that it closed after that.
THEOREM MultiplexersImplementChannels ==
  ASSUME OneOpener
  PROVE  Spec => ImplementsChannels
<1>1. Spec => []Good
  BY GoodInit, GoodNext, PTL DEF Spec
<1>2. Init => Service!Init
  BY ServiceInit
<1>3. Good /\ [Next]_vars => [Service!Next]_(Service!vars)
  BY ServiceNext
<1> QED BY <1>1, <1>2, <1>3, PTL DEF Spec, ImplementsChannels, Service!Spec

-----------------------------------------------------------------------------
(* What an end has read is the beginning of what the other end of its pair  *)
(* has written.                                                             *)
ReadsAreOwn ==
  \A e \in End : read[e] = Run(Peer(e), 0, Len(read[e])) /\ Len(read[e]) <= written[Peer(e)]

LEMMA WrittenGrows ==
  ASSUME TypeOK, [Next]_vars, NEW e \in End PROVE written[e] <= written'[e]
<1>1. written[e] \in Nat /\ written \in [End -> 0 .. MaxData]
  BY DEF TypeOK
<1>2. CASE UNCHANGED written
  BY <1>1, <1>2
<1>3. ASSUME NEW x \in End, Write(x) PROVE written[e] <= written'[e]
  BY <1>1, <1>3 DEF Write
<1>4. ASSUME NEW p \in Side, Receive(p) PROVE UNCHANGED written
  <2>1. PICK m : m = Head(link[p])
    OBVIOUS
  <2>2. HandleAckOpen(p, m) \/ HandleOpen(p, m) \/ HandleClose(p, m) \/ HandleData(p, m)
    BY <1>4, <2>1 DEF Receive
  <2> QED BY <2>2 DEF HandleAckOpen, HandleOpen, HandleClose, HandleData, Create, holders
<1>5. Write(e) \/ UNCHANGED written \/ \E x \in End : Write(x)
  BY <1>4 DEF Next, vars, holders, Open, UnderlyingChannelClose, CloseChannel
<1> QED BY <1>2, <1>3, <1>5

LEMMA ReadsKept ==
  ASSUME OneOpener, Good, ReadsAreOwn, [Next]_vars PROVE ReadsAreOwn'
<1>1. ASSUME NEW e \in End
      PROVE  /\ Peer(e) \in End /\ Len(read[e]) \in Nat /\ written[Peer(e)] \in Nat
             /\ written[Peer(e)] <= written'[Peer(e)] /\ written'[Peer(e)] \in Nat
  <2>1. TypeOK /\ TypeOK'
    BY TypeNext DEF Good, Inv
  <2>2. Peer(e) \in End
    BY PeerOf
  <2>3. Len(read[e]) \in Nat /\ written[Peer(e)] \in Nat
    BY <2>1, <2>2 DEF TypeOK
  <2>4. written'[Peer(e)] \in Nat
    BY <2>1, <2>2 DEF TypeOK
  <2>5. written[Peer(e)] <= written'[Peer(e)]
    BY <2>1, <2>2, WrittenGrows
  <2> QED BY <2>2, <2>3, <2>4, <2>5
<1>2. CASE UNCHANGED read
  BY <1>1, <1>2 DEF ReadsAreOwn
<1>3. ASSUME NEW x \in End, Service!Read(x) PROVE ReadsAreOwn'
  <2>1. /\ States[x] = "open" /\ Pipes[x] # <<>>
        /\ read' = [read EXCEPT ![x] = Append(@, Head(Pipes[x]))]
    BY <1>3 DEF Service!Read, States, Pipes
  <2>2. PICK r \in Nat : r = Len(read[x])
    BY <1>1
  <2>3. Live(x) /\ r + Unread(x) = written[Peer(x)] /\ Unread(x) \in Nat
    BY <2>1, <2>2, StateIs, UnreadIs DEF Live
  <2>4. Unread(x) # 0
    BY <2>1, PipesAre, NoRun
  <2>5. PICK u \in Nat : Unread(x) = u + 1
    <3>1. Unread(x) - 1 \in Nat
      BY <2>3, <2>4
    <3> QED BY <2>3, <3>1
  <2>6. Head(Pipes[x]) = [from |-> Peer(x), n |-> r + 1]
    <3>1. Pipes[x] = Run(Peer(x), r, u + 1)
      BY <2>2, <2>5, PipesAre
    <3>2. Head(Run(Peer(x), r, u + 1)) = [from |-> Peer(x), n |-> r + 1]
      BY RunIs
    <3> QED BY <3>1, <3>2
  <2>7. read'[x] = Run(Peer(x), 0, r + 1)
    <3>1. Run(Peer(x), 0, r + 1) = Append(Run(Peer(x), 0, r), [from |-> Peer(x), n |-> r + 1])
      <4>1. PICK z \in Nat : z = 0
        OBVIOUS
      <4>2. Run(Peer(x), z, r + 1) = Append(Run(Peer(x), z, r), [from |-> Peer(x), n |-> z + r + 1])
        BY RunIs
      <4>3. z + r + 1 = r + 1
        BY <4>1
      <4> QED BY <4>1, <4>2, <4>3
    <3>2. read[x] = Run(Peer(x), 0, r)
      BY <2>2 DEF ReadsAreOwn
    <3>3. read'[x] = Append(read[x], [from |-> Peer(x), n |-> r + 1])
      BY <2>1, <2>6 DEF Good, Inv, TypeOK
    <3> QED BY <3>1, <3>2, <3>3
  <2>8. Len(read'[x]) = r + 1
    BY <2>2, <2>7 DEF Run
  <2>9. ASSUME NEW e \in End
        PROVE  read'[e] = Run(Peer(e), 0, Len(read'[e])) /\ Len(read'[e]) <= written'[Peer(e)]
    <3>1. CASE e = x
      BY <1>1, <2>3, <2>5, <2>7, <2>8, <3>1
    <3>2. CASE e # x
      <4>1. read'[e] = read[e]
        BY <2>1, <3>2
      <4> QED BY <1>1, <4>1 DEF ReadsAreOwn
    <3> QED BY <3>1, <3>2
  <2> QED BY <2>9 DEF ReadsAreOwn
<1>4. read' = read \/ \E x \in End : Service!Read(x)
  BY ServiceNext
     DEF Service!Next, Service!vars, Service!End, End, Service!Open, Service!Accept, Service!Return,
         Service!Write, Service!Close, Service!Told, Service!Lose
<1> QED BY <1>2, <1>3, <1>4

\* If no id is opened by both sides, an end has read the messages of the other
\* end of its own pair, from the first on, in order, none twice and none left
\* out: the handlers that find a channel by its id never give it a message of
\* another one.
THEOREM EndsReadTheirPeer ==
  ASSUME OneOpener
  PROVE  Spec => []ReadsAreOwn
<1>1. Spec => []Good
  BY GoodInit, GoodNext, PTL DEF Spec
<1>2. Init => ReadsAreOwn
  <2> SUFFICES ASSUME Init, NEW e \in End
               PROVE  read[e] = Run(Peer(e), 0, Len(read[e])) /\ Len(read[e]) <= written[Peer(e)]
    BY DEF ReadsAreOwn
  <2>1. read[e] = <<>> /\ written[Peer(e)] = 0
    BY PeerOf DEF Init
  <2>2. Len(read[e]) = 0
    BY <2>1
  <2> QED BY <2>1, <2>2, NoRun
<1>3. Good /\ ReadsAreOwn /\ [Next]_vars => ReadsAreOwn'
  BY ReadsKept
<1> QED BY <1>1, <1>2, <1>3, PTL DEF Spec
==============================================================================
