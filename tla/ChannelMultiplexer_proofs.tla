----------------------- MODULE ChannelMultiplexer_proofs -----------------------
(***************************************************************************)
(* Proofs about ChannelMultiplexer for any ids, any number of open() calls *)
(* and messages, with or without loss of the connection.                   *)
(***************************************************************************)
EXTENDS ChannelMultiplexer, TLAPS

(* Each id is opened by one side only.                                      *)
OneOpener == \A id \in Id : MayOpen[id] # Side

(* What arrives at p as an Open is the other side's call.                   *)
IsCallTo(p, packet) ==
  packet.type = "Open" => /\ Other(p) \in MayOpen[packet.id]
                          /\ packet.from.pair.by = Other(p)
                          /\ packet.from.pair.id = packet.id

CallsOnly(queues) ==
  \A p \in Side : \A i \in 1 .. Len(queues[p]) : IsCallTo(p, queues[p][i])

OpensAreCalls == CallsOnly(link)

(* What waits at p is p's own call, and its id is not open there.           *)
PendingIsClosed ==
  \A p \in Side : \A k \in pendingOpen[p] :
    k.by = p /\ p \in MayOpen[k.id] /\ ChannelFor(p, k.id) = {}

(* The map of channels is a map.                                            *)
OnePerId ==
  \A p \in Side : \A e, f \in openChannels[p] :
    At(e) = p /\ (IdOf(e) = IdOf(f) => e = f)

Maps == PendingIsClosed /\ OnePerId /\ HeldIsRegistered

Inv == TypeOK /\ OpensAreCalls /\ Maps

LEMMA OtherSide == \A p \in Side : Other(p) \in Side /\ Other(p) # p /\ Other(Other(p)) = p
  BY DEF Other, Side

LEMMA EndFields ==
  ASSUME NEW e \in End
  PROVE  /\ e.pair \in Pair /\ e.pair.by \in Side /\ e.pair.id \in Id
         /\ At(e) \in Side /\ IdOf(e) \in Id
  BY OtherSide DEF End, Pair, At, IdOf

LEMMA EndsOf ==
  ASSUME NEW k \in Pair
  PROVE  /\ OpenerOf(k) \in End /\ AcceptorOf(k) \in End
         /\ At(OpenerOf(k)) = k.by /\ At(AcceptorOf(k)) = Other(k.by)
         /\ IdOf(OpenerOf(k)) = k.id /\ IdOf(AcceptorOf(k)) = k.id
         /\ k.by \in Side /\ k.id \in Id
  BY DEF OpenerOf, AcceptorOf, End, Pair, At, IdOf

LEMMA SentType ==
  ASSUME NEW queues \in [Side -> Seq(Packet)], NEW p \in Side,
         NEW type \in MessageTypes, NEW e \in End, NEW n \in 0 .. MaxData
  PROVE  Sent(queues, p, type, e, n) \in [Side -> Seq(Packet)]
<1> DEFINE packet == [type |-> type, id |-> IdOf(e), from |-> e, n |-> n]
<1>1. packet \in Packet
  BY EndFields DEF Packet
<1>2. Append(queues[Other(p)], packet) \in Seq(Packet)
  BY <1>1, OtherSide
<1> QED BY <1>2, OtherSide DEF Sent

LEMMA SignalType ==
  ASSUME NEW queues \in [Side -> Seq(Packet)], NEW p \in Side,
         NEW type \in MessageTypes, NEW e \in End
  PROVE  Sent(queues, p, type, e, 0) \in [Side -> Seq(Packet)]
<1>1. 0 \in 0 .. MaxData
  BY BoundsAssumption
<1> QED BY <1>1, SentType

LEMMA HeadType ==
  ASSUME NEW queue \in Seq(Packet), queue # <<>>
  PROVE  /\ Head(queue) \in Packet /\ Tail(queue) \in Seq(Packet)
         /\ Head(queue) = queue[1] /\ 1 \in 1 .. Len(queue)
  OBVIOUS

LEMMA TypeInit == Init => TypeOK
<1> SUFFICES ASSUME Init PROVE TypeOK
  OBVIOUS
<1>1. <<>> \in Seq(Packet) /\ <<>> \in Seq([from : End, n : 0 .. MaxData])
  OBVIOUS
<1>2. 0 \in 0 .. MaxOpens /\ 0 \in 0 .. MaxData
  BY BoundsAssumption
<1> QED BY <1>1, <1>2 DEF Init, TypeOK

LEMMA SettleType ==
  ASSUME TypeOK, NEW calls, NEW outcome \in {"resolved", "rejected"}, Settle(calls, outcome)
  PROVE  promise' \in [Pair -> {"none", "waiting", "resolved", "rejected"}]
  BY DEF Settle, TypeOK

LEMMA MapTypes ==
  ASSUME TypeOK, NEW p \in Side, NEW id \in Id
  PROVE  /\ DeletePending(p, id) => pendingOpen' \in [Side -> SUBSET Pair]
         /\ DeleteChannel(p, id) => openChannels' \in [Side -> SUBSET End]
         /\ \A e \in End : SetChannel(p, e) => openChannels' \in [Side -> SUBSET End]
<1>1. DeletePending(p, id) => pendingOpen' \in [Side -> SUBSET Pair]
  BY DEF TypeOK, DeletePending
<1>2. DeleteChannel(p, id) => openChannels' \in [Side -> SUBSET End]
  BY DEF TypeOK, DeleteChannel
<1>3. ASSUME NEW e \in End, SetChannel(p, e) PROVE openChannels' \in [Side -> SUBSET End]
  <2>1. (openChannels[p] \ ChannelFor(p, IdOf(e))) \cup {e} \in SUBSET End
    BY DEF TypeOK
  <2> QED BY <1>3, <2>1 DEF TypeOK, SetChannel
<1> QED BY <1>1, <1>2, <1>3

LEMMA TypeNext == TypeOK /\ [Next]_vars => TypeOK'
<1> SUFFICES ASSUME TypeOK, [Next]_vars PROVE TypeOK'
  OBVIOUS
<1>1. ASSUME NEW p \in Side, NEW id \in Id, Open(p, id) PROVE TypeOK'
  <2> DEFINE k == [by |-> p, id |-> id, n |-> opens + 1]
  <2>1. opens + 1 \in 1 .. MaxOpens
    BY <1>1, BoundsAssumption DEF Open, TypeOK
  <2>2. p \in MayOpen[id] /\ opens' = opens + 1
    BY <1>1 DEF Open
  <2>3. k \in Pair
    BY <2>1, <2>2 DEF Pair
  <2>4. opens' \in 0 .. MaxOpens
    BY <2>1, <2>2
  <2>5. link' = Sent(link, p, "Open", OpenerOf(k), 0)
    BY <1>1 DEF Open
  <2>6. link' \in [Side -> Seq(Packet)]
    BY <2>3, <2>5, EndsOf, SignalType DEF TypeOK, MessageTypes
  <2>7. pendingOpen' \in [Side -> SUBSET Pair]
    BY <1>1, <2>3 DEF Open, TypeOK
  <2>8. promise' \in [Pair -> {"none", "waiting", "resolved", "rejected"}]
    BY <1>1, <2>3 DEF Open, TypeOK
  <2> QED BY <1>1, <2>4, <2>6, <2>7, <2>8 DEF Open, TypeOK, holders
<1>2. ASSUME NEW p \in Side, Receive(p) PROVE TypeOK'
  <2> DEFINE packet == Head(link[p])
  <2>1. link[p] \in Seq(Packet) /\ link[p] # <<>>
    BY <1>2 DEF Receive, TypeOK
  <2>2. /\ packet \in Packet
        /\ [link EXCEPT ![p] = Tail(@)] \in [Side -> Seq(Packet)]
    BY <2>1, HeadType DEF TypeOK
  <2>3. packet.id \in Id /\ packet.from \in End /\ packet.n \in 0 .. MaxData
    BY <2>2 DEF Packet
  <2>4. closed' = closed /\ opens' = opens
    BY <1>2 DEF Receive
  <2>5. CASE HandleAckOpen(p, packet)
    <3>1. link' \in [Side -> Seq(Packet)]
      BY <2>2, <2>5 DEF HandleAckOpen
    <3>2. CASE PendingFor(p, packet.id) = {}
      BY <2>4, <2>5, <3>1, <3>2 DEF HandleAckOpen, TypeOK, maps, holders
    <3>3. CASE PendingFor(p, packet.id) # {}
      <4>1. PICK k \in PendingFor(p, packet.id) : Create(p, OpenerOf(k))
        BY <2>5, <3>3 DEF HandleAckOpen
      <4>2. OpenerOf(k) \in End
        BY <4>1, EndsOf DEF PendingFor, TypeOK
      <4>3. openChannels' \in [Side -> SUBSET End]
        BY <2>3, <4>1, <4>2, MapTypes DEF Create
      <4>4. /\ holder' \in [End -> {"none", "open", "closed", "told"}]
            /\ written' = written /\ read' = read
        BY <4>1, <4>2 DEF Create, TypeOK
      <4>5. pendingOpen' \in [Side -> SUBSET Pair]
        BY <2>3, <2>5, <3>3, MapTypes DEF HandleAckOpen
      <4>6. promise' \in [Pair -> {"none", "waiting", "resolved", "rejected"}]
        BY <2>5, <3>3, SettleType DEF HandleAckOpen
      <4> QED BY <2>4, <3>1, <4>3, <4>4, <4>5, <4>6 DEF TypeOK
    <3> QED BY <3>2, <3>3
  <2>6. CASE HandleOpen(p, packet)
    <3> DEFINE e == AcceptorOf(packet.from.pair)
               rest == [link EXCEPT ![p] = Tail(@)]
    <3>1. e \in End
      BY <2>3, EndFields, EndsOf
    <3>2. CASE ChannelFor(p, packet.id) # {}
      BY <2>2, <2>4, <2>6, <3>2 DEF HandleOpen, TypeOK, maps, holders
    <3>3. CASE ChannelFor(p, packet.id) = {}
      <4>1. Create(p, e) /\ pendingOpen' = pendingOpen
        BY <2>6, <3>3 DEF HandleOpen
      <4>2. link' = Sent(rest, p, "AckOpen", e, 0)
        BY <2>6, <3>3 DEF HandleOpen
      <4>3. link' \in [Side -> Seq(Packet)]
        BY <2>2, <3>1, <4>2, SignalType DEF MessageTypes
      <4>4. openChannels' \in [Side -> SUBSET End]
        BY <2>3, <3>1, <4>1, MapTypes DEF Create
      <4>5. /\ holder' \in [End -> {"none", "open", "closed", "told"}]
            /\ written' = written /\ read' = read
        BY <3>1, <4>1 DEF Create, TypeOK
      <4>6. promise' \in [Pair -> {"none", "waiting", "resolved", "rejected"}]
        BY <2>6, <3>3, SettleType DEF HandleOpen
      <4> QED BY <2>4, <4>1, <4>3, <4>4, <4>5, <4>6 DEF TypeOK
    <3> QED BY <3>2, <3>3
  <2>7. CASE HandleClose(p, packet)
    <3>1. openChannels' \in [Side -> SUBSET End]
      BY <2>3, <2>7, MapTypes DEF HandleClose
    <3>2. holder' \in [End -> {"none", "open", "closed", "told"}]
      BY <2>7 DEF HandleClose, TypeOK
    <3> QED BY <2>2, <2>4, <2>7, <3>1, <3>2 DEF HandleClose, TypeOK
  <2>8. CASE HandleData(p, packet)
    <3> DEFINE payload == [from |-> packet.from, n |-> packet.n]
    <3>1. payload \in [from : End, n : 0 .. MaxData]
      BY <2>3
    <3>2. ASSUME NEW e \in End
          PROVE  /\ read[e] \in Seq([from : End, n : 0 .. MaxData])
                 /\ Append(read[e], payload) \in Seq([from : End, n : 0 .. MaxData])
      <4>1. read[e] \in Seq([from : End, n : 0 .. MaxData])
        BY DEF TypeOK
      <4> HIDE DEF payload
      <4> QED BY <3>1, <4>1
    <3>3. read' \in [End -> Seq([from : End, n : 0 .. MaxData])]
      BY <2>8, <3>2 DEF HandleData
    <3> QED BY <2>2, <2>4, <2>8, <3>3 DEF HandleData, TypeOK, maps
  <2> QED BY <1>2, <2>5, <2>6, <2>7, <2>8 DEF Receive
<1>3. ASSUME NEW p \in Side, UnderlyingChannelClose(p) PROVE TypeOK'
  <2>1. promise' \in [Pair -> {"none", "waiting", "resolved", "rejected"}]
    BY <1>3, SettleType DEF UnderlyingChannelClose
  <2>2. holder' \in [End -> {"none", "open", "closed", "told"}]
    BY <1>3 DEF UnderlyingChannelClose, TypeOK
  <2>3. <<>> \in Seq(Packet)
    OBVIOUS
  <2>4. link' \in [Side -> Seq(Packet)]
    BY <1>3, <2>3 DEF UnderlyingChannelClose, TypeOK
  <2> QED BY <1>3, <2>1, <2>2, <2>4 DEF UnderlyingChannelClose, TypeOK
<1>4. ASSUME NEW e \in End, Write(e) PROVE TypeOK'
  <2>1. written[e] + 1 \in 0 .. MaxData
    BY <1>4, BoundsAssumption DEF Write, TypeOK
  <2>2. link' \in [Side -> Seq(Packet)]
    BY <1>4, <2>1, EndFields, SentType DEF Write, TypeOK, MessageTypes
  <2> QED BY <1>4, <2>1, <2>2 DEF Write, TypeOK, maps
<1>5. ASSUME NEW e \in End, CloseChannel(e) PROVE TypeOK'
  <2>1. openChannels' \in [Side -> SUBSET End]
    BY <1>5, EndFields, MapTypes DEF CloseChannel
  <2>2. link' \in [Side -> Seq(Packet)]
    BY <1>5, EndFields, SignalType DEF CloseChannel, TypeOK, MessageTypes
  <2>3. holder' \in [End -> {"none", "open", "closed", "told"}]
    BY <1>5 DEF CloseChannel, TypeOK
  <2> QED BY <1>5, <2>1, <2>2, <2>3 DEF CloseChannel, TypeOK
<1>6. CASE UNCHANGED vars
  BY <1>6 DEF TypeOK, vars, maps, holders
<1> QED BY <1>1, <1>2, <1>3, <1>4, <1>5, <1>6 DEF Next

\* Every variable keeps its type, whatever is opened and lost.
THEOREM TypeCorrect == Spec => []TypeOK
  BY TypeInit, TypeNext, PTL DEF Spec

-----------------------------------------------------------------------------
LEMMA TailCalls ==
  ASSUME NEW queues \in [Side -> Seq(Packet)], NEW p \in Side, queues[p] # <<>>,
         CallsOnly(queues)
  PROVE  /\ CallsOnly([queues EXCEPT ![p] = Tail(@)])
         /\ IsCallTo(p, Head(queues[p]))
<1> DEFINE rest == [queues EXCEPT ![p] = Tail(@)]
<1>1. queues[p] \in Seq(Packet) /\ Len(queues[p]) > 0
  OBVIOUS
<1>2. IsCallTo(p, Head(queues[p]))
  BY <1>1 DEF CallsOnly
<1>3. ASSUME NEW q \in Side, NEW i \in 1 .. Len(rest[q]) PROVE IsCallTo(q, rest[q][i])
  <2>1. CASE q = p
    <3>1. i + 1 \in 1 .. Len(queues[p]) /\ rest[q][i] = queues[p][i + 1]
      BY <1>1, <1>3, <2>1
    <3> QED BY <2>1, <3>1 DEF CallsOnly
  <2>2. CASE q # p
    BY <1>3, <2>2 DEF CallsOnly
  <2> QED BY <2>1, <2>2
<1> QED BY <1>2, <1>3 DEF CallsOnly

LEMMA SentCalls ==
  ASSUME NEW queues \in [Side -> Seq(Packet)], NEW p \in Side,
         NEW type \in MessageTypes, NEW e \in End, NEW n \in 0 .. MaxData,
         CallsOnly(queues),
         type = "Open" => p \in MayOpen[IdOf(e)] /\ e.pair.by = p
  PROVE  CallsOnly(Sent(queues, p, type, e, n))
<1> DEFINE packet == [type |-> type, id |-> IdOf(e), from |-> e, n |-> n]
           sent   == [queues EXCEPT ![Other(p)] = Append(@, packet)]
<1>1. IsCallTo(Other(p), packet)
  BY OtherSide DEF IsCallTo, IdOf
<1>2. ASSUME NEW q \in Side, NEW i \in 1 .. Len(sent[q]) PROVE IsCallTo(q, sent[q][i])
  <2> HIDE DEF packet
  <2>1. CASE q = Other(p)
    <3>1. queues[q] \in Seq(Packet) /\ sent[q] = Append(queues[q], packet)
      BY <2>1
    <3>2. CASE i = Len(queues[q]) + 1
      BY <1>1, <2>1, <3>1, <3>2
    <3>3. CASE i # Len(queues[q]) + 1
      <4>1. i \in 1 .. Len(queues[q]) /\ sent[q][i] = queues[q][i]
        BY <1>2, <3>1, <3>3
      <4> QED BY <4>1 DEF CallsOnly
    <3> QED BY <3>2, <3>3
  <2>2. CASE q # Other(p)
    BY <1>2, <2>2 DEF CallsOnly
  <2> QED BY <2>1, <2>2
<1>3. Sent(queues, p, type, e, n) \in {queues, sent}
  BY DEF Sent
<1> QED BY <1>2, <1>3 DEF CallsOnly

LEMMA CallsNext == TypeOK /\ OpensAreCalls /\ [Next]_vars => OpensAreCalls'
<1> SUFFICES ASSUME TypeOK, CallsOnly(link), [Next]_vars PROVE CallsOnly(link')
  BY DEF OpensAreCalls, CallsOnly, IsCallTo
<1>0. link \in [Side -> Seq(Packet)] /\ 0 \in 0 .. MaxData
  BY BoundsAssumption DEF TypeOK
<1>1. ASSUME NEW p \in Side, NEW id \in Id, Open(p, id) PROVE CallsOnly(link')
  <2> DEFINE k == [by |-> p, id |-> id, n |-> opens + 1]
  <2>1. opens + 1 \in 1 .. MaxOpens
    BY <1>1, BoundsAssumption DEF Open, TypeOK
  <2>2. k \in Pair /\ k.by = p /\ k.id = id
    BY <1>1, <2>1 DEF Pair, Open
  <2>3. link' = Sent(link, p, "Open", OpenerOf(k), 0) /\ p \in MayOpen[id]
    BY <1>1 DEF Open
  <2>4. OpenerOf(k) \in End /\ IdOf(OpenerOf(k)) = id /\ OpenerOf(k).pair = k
    BY <2>2, EndsOf DEF OpenerOf
  <2> HIDE DEF k
  <2> QED BY <1>0, <2>2, <2>3, <2>4, SentCalls DEF MessageTypes
<1>2. ASSUME NEW p \in Side, Receive(p) PROVE CallsOnly(link')
  <2> DEFINE packet == Head(link[p])
             rest == [link EXCEPT ![p] = Tail(@)]
             e == AcceptorOf(packet.from.pair)
  <2>1. link[p] \in Seq(Packet) /\ link[p] # <<>>
    BY <1>0, <1>2 DEF Receive
  <2>2. CallsOnly(rest) /\ rest \in [Side -> Seq(Packet)]
    BY <1>0, <2>1, TailCalls, HeadType
  <2>3. CASE link' = rest
    BY <2>2, <2>3
  <2>4. CASE link' = Sent(rest, p, "AckOpen", e, 0)
    <3>1. e \in End
      BY <2>1, HeadType, EndFields, EndsOf DEF Packet
    <3> HIDE DEF e, rest
    <3> QED BY <1>0, <2>2, <2>4, <3>1, SentCalls DEF MessageTypes
  <2>5. link' \in {rest, Sent(rest, p, "AckOpen", e, 0)}
    BY <1>2 DEF Receive, HandleAckOpen, HandleOpen, HandleClose, HandleData
  <2> QED BY <2>3, <2>4, <2>5
<1>3. ASSUME NEW p \in Side, UnderlyingChannelClose(p) PROVE CallsOnly(link')
  <2>1. link' = [link EXCEPT ![p] = <<>>]
    BY <1>3 DEF UnderlyingChannelClose
  <2> QED BY <1>0, <2>1 DEF CallsOnly
<1>4. ASSUME NEW e \in End, Write(e) PROVE CallsOnly(link')
  <2>1. written[e] + 1 \in 0 .. MaxData
    BY <1>4, BoundsAssumption DEF Write, TypeOK
  <2>2. link' = Sent(link, At(e), "Data", e, written[e] + 1)
    BY <1>4 DEF Write
  <2> QED BY <1>0, <2>1, <2>2, EndFields, SentCalls DEF MessageTypes
<1>5. ASSUME NEW e \in End, CloseChannel(e) PROVE CallsOnly(link')
  <2>1. link' = Sent(link, At(e), "Close", e, 0)
    BY <1>5 DEF CloseChannel
  <2> QED BY <1>0, <2>1, EndFields, SentCalls DEF MessageTypes
<1>6. CASE UNCHANGED vars
  BY <1>6 DEF vars
<1> QED BY <1>1, <1>2, <1>3, <1>4, <1>5, <1>6 DEF Next

-----------------------------------------------------------------------------
(* Handing out a channel whose id has none at the side keeps the maps,      *)
(* if no call with the id waits there any more.                             *)
LEMMA CreateMaps ==
  ASSUME TypeOK, Maps, NEW e \in End, NEW p \in Side, At(e) = p,
         ChannelFor(p, IdOf(e)) = {}, Create(p, e),
         \A q \in Side : pendingOpen'[q] \subseteq pendingOpen[q],
         \A k \in pendingOpen'[p] : k.id # IdOf(e)
  PROVE  Maps'
<1>1. /\ openChannels' = [openChannels EXCEPT ![p] = @ \cup {e}]
      /\ openChannels \in [Side -> SUBSET End]
  BY DEF Create, SetChannel, TypeOK
<1>2. ASSUME NEW q \in Side, NEW k \in pendingOpen'[q]
      PROVE  k.by = q /\ q \in MayOpen[k.id] /\ ChannelFor(q, k.id)' = {}
  <2>1. k.by = q /\ q \in MayOpen[k.id] /\ ChannelFor(q, k.id) = {}
    BY <1>2 DEF Maps, PendingIsClosed
  <2> QED BY <1>1, <2>1 DEF ChannelFor
<1>3. OnePerId'
  <2> SUFFICES ASSUME NEW q \in Side, NEW f \in openChannels'[q], NEW g \in openChannels'[q]
               PROVE  At(f) = q /\ (IdOf(f) = IdOf(g) => f = g)
    BY DEF OnePerId
  <2>1. \A h \in openChannels[q] : At(h) = q
    BY DEF Maps, OnePerId
  <2>2. \A h \in openChannels[p] : IdOf(h) # IdOf(e)
    BY DEF ChannelFor
  <2>3. CASE f \in openChannels[q] /\ g \in openChannels[q]
    BY <2>3 DEF Maps, OnePerId
  <2>4. CASE ~(f \in openChannels[q] /\ g \in openChannels[q])
    BY <1>1, <2>1, <2>2, <2>4
  <2> QED BY <2>3, <2>4
<1>4. HeldIsRegistered'
  BY <1>1 DEF Create, TypeOK, Maps, HeldIsRegistered
<1> QED BY <1>2, <1>3, <1>4 DEF Maps, PendingIsClosed

(* Removing the channel of an id keeps the maps, if nobody holds it open    *)
(* any more.                                                                *)
LEMMA DeleteMaps ==
  ASSUME TypeOK, Maps, NEW p \in Side, NEW id \in Id, DeleteChannel(p, id),
         pendingOpen' = pendingOpen,
         \A f \in End : holder'[f] = "open" => /\ holder[f] = "open"
                                              /\ f \notin ChannelFor(p, id)
  PROVE  Maps'
<1>1. /\ openChannels' = [openChannels EXCEPT ![p] = @ \ ChannelFor(p, id)]
      /\ openChannels \in [Side -> SUBSET End]
  BY DEF DeleteChannel, TypeOK
<1>2. \A q \in Side : openChannels'[q] \subseteq openChannels[q]
  BY <1>1
<1>3. PendingIsClosed'
  BY <1>2 DEF Maps, PendingIsClosed, ChannelFor
<1>4. OnePerId'
  BY <1>2 DEF Maps, OnePerId
<1>5. HeldIsRegistered'
  BY <1>1 DEF Maps, HeldIsRegistered
<1> QED BY <1>3, <1>4, <1>5 DEF Maps

LEMMA MapsNext == OneOpener /\ TypeOK /\ OpensAreCalls /\ Maps /\ [Next]_vars => Maps'
<1> SUFFICES ASSUME OneOpener, TypeOK, CallsOnly(link), Maps, [Next]_vars PROVE Maps'
  BY DEF OpensAreCalls
<1>0. link \in [Side -> Seq(Packet)]
  BY DEF TypeOK
<1>1. ASSUME NEW p \in Side, NEW id \in Id, Open(p, id) PROVE Maps'
  <2> DEFINE k == [by |-> p, id |-> id, n |-> opens + 1]
  <2>1. /\ pendingOpen' = [pendingOpen EXCEPT ![p] = @ \cup {k}]
        /\ openChannels' = openChannels /\ holder' = holder
        /\ p \in MayOpen[id] /\ ChannelFor(p, id) = {}
    BY <1>1 DEF Open, holders
  <2>2. ASSUME NEW q \in Side, NEW c \in pendingOpen'[q]
        PROVE  c.by = q /\ q \in MayOpen[c.id] /\ ChannelFor(q, c.id)' = {}
    <3>1. c \in pendingOpen[q] \/ (q = p /\ c = k)
      BY <2>1, <2>2 DEF TypeOK
    <3>2. CASE c \in pendingOpen[q]
      BY <2>1, <3>2 DEF Maps, PendingIsClosed, ChannelFor
    <3>3. CASE q = p /\ c = k
      BY <2>1, <3>3 DEF ChannelFor
    <3> QED BY <3>1, <3>2, <3>3
  <2> QED BY <2>1, <2>2 DEF Maps, PendingIsClosed, OnePerId, HeldIsRegistered
<1>2. ASSUME NEW p \in Side, Receive(p) PROVE Maps'
  <2> DEFINE packet == Head(link[p])
  <2>1. link[p] \in Seq(Packet) /\ link[p] # <<>>
    BY <1>0, <1>2 DEF Receive
  <2>2. packet \in Packet /\ packet.id \in Id /\ packet.from.pair \in Pair
    BY <2>1, HeadType, EndFields DEF Packet
  <2>3. IsCallTo(p, packet)
    BY <1>0, <2>1, TailCalls
  <2>4. CASE HandleAckOpen(p, packet) /\ PendingFor(p, packet.id) # {}
    <3>1. PICK k \in PendingFor(p, packet.id) : Create(p, OpenerOf(k))
      BY <2>4 DEF HandleAckOpen
    <3>2. k \in Pair /\ k \in pendingOpen[p] /\ k.id = packet.id
      BY <3>1 DEF PendingFor, TypeOK
    <3>3. k.by = p /\ ChannelFor(p, k.id) = {}
      BY <3>2 DEF Maps, PendingIsClosed
    <3>4. /\ \A q \in Side : pendingOpen'[q] \subseteq pendingOpen[q]
          /\ \A c \in pendingOpen'[p] : c.id # packet.id
      BY <2>4 DEF HandleAckOpen, DeletePending, PendingFor, TypeOK
    <3> QED BY <3>1, <3>2, <3>3, <3>4, EndsOf, CreateMaps
  <2>5. CASE HandleOpen(p, packet) /\ ChannelFor(p, packet.id) = {} /\ packet.type = "Open"
    <3> DEFINE e == AcceptorOf(packet.from.pair)
    <3>1. Create(p, e) /\ pendingOpen' = pendingOpen
      BY <2>5 DEF HandleOpen
    <3>2. e \in End /\ At(e) = p /\ IdOf(e) = packet.id
      BY <2>2, <2>3, <2>5, EndsOf, OtherSide DEF IsCallTo
    <3>3. Other(p) \in MayOpen[packet.id]
      BY <2>3, <2>5 DEF IsCallTo
    <3>4. p \notin MayOpen[packet.id]
      <4>1. MayOpen[packet.id] # Side /\ MayOpen[packet.id] \subseteq Side
        BY <2>2, OpenersAssumption DEF OneOpener
      <4> QED BY <3>3, <4>1 DEF Other, Side
    <3>5. \A c \in pendingOpen[p] : c.id # packet.id
      BY <3>4 DEF Maps, PendingIsClosed
    <3> QED BY <2>5, <3>1, <3>2, <3>5, CreateMaps
  <2>6. CASE HandleClose(p, packet)
    <3>1. \A f \in End : holder'[f] = "open" => /\ holder[f] = "open"
                                               /\ f \notin ChannelFor(p, packet.id)
      BY <2>6 DEF HandleClose
    <3> QED BY <2>2, <2>6, <3>1, DeleteMaps DEF HandleClose
  <2>7. CASE UNCHANGED <<pendingOpen, openChannels, holder>>
    BY <2>7 DEF Maps, PendingIsClosed, OnePerId, HeldIsRegistered, ChannelFor
  <2> QED BY <1>2, <2>4, <2>5, <2>6, <2>7
          DEF Receive, HandleAckOpen, HandleOpen, HandleData, maps, holders
<1>3. ASSUME NEW p \in Side, UnderlyingChannelClose(p) PROVE Maps'
  <2>1. /\ pendingOpen' = [pendingOpen EXCEPT ![p] = {}]
        /\ openChannels' = [openChannels EXCEPT ![p] = {}]
        /\ pendingOpen \in [Side -> SUBSET Pair] /\ openChannels \in [Side -> SUBSET End]
    BY <1>3 DEF UnderlyingChannelClose, TypeOK
  <2>2. PendingIsClosed'
    BY <2>1 DEF Maps, PendingIsClosed, ChannelFor
  <2>3. OnePerId'
    BY <2>1 DEF Maps, OnePerId
  <2>4. ASSUME NEW e \in End, holder'[e] = "open" PROVE e \in openChannels'[At(e)]
    <3>1. holder[e] = "open" /\ e \notin openChannels[p]
      BY <1>3, <2>4 DEF UnderlyingChannelClose
    <3> QED BY <2>1, <3>1, EndFields DEF Maps, HeldIsRegistered
  <2> QED BY <2>2, <2>3, <2>4 DEF Maps, HeldIsRegistered
<1>4. ASSUME NEW e \in End, Write(e) PROVE Maps'
  BY <1>4 DEF Write, maps, Maps, PendingIsClosed, OnePerId, HeldIsRegistered, ChannelFor
<1>5. ASSUME NEW e \in End, CloseChannel(e) PROVE Maps'
  <2>1. At(e) \in Side /\ IdOf(e) \in Id /\ e \in openChannels[At(e)]
    BY <1>5, EndFields DEF CloseChannel, Maps, HeldIsRegistered
  <2>2. ASSUME NEW f \in End, holder'[f] = "open"
        PROVE  holder[f] = "open" /\ f \notin ChannelFor(At(e), IdOf(e))
    <3>1. holder[f] = "open" /\ f # e
      BY <1>5, <2>2 DEF CloseChannel, TypeOK
    <3> QED BY <2>1, <3>1 DEF ChannelFor, Maps, OnePerId
  <2> QED BY <1>5, <2>1, <2>2, DeleteMaps DEF CloseChannel
<1>6. CASE UNCHANGED vars
  BY <1>6 DEF vars, maps, holders, Maps, PendingIsClosed, OnePerId, HeldIsRegistered,
              ChannelFor
<1> QED BY <1>1, <1>2, <1>3, <1>4, <1>5, <1>6 DEF Next

LEMMA InvInit == Init => Inv
<1> SUFFICES ASSUME Init PROVE Inv
  OBVIOUS
<1>1. OpensAreCalls
  BY DEF Init, OpensAreCalls, CallsOnly
<1>2. Maps
  BY DEF Init, Maps, PendingIsClosed, OnePerId, HeldIsRegistered
<1> QED BY <1>1, <1>2, TypeInit DEF Inv

\* If no id is opened by both sides, a channel its holder takes for open is
\* always the one its side's multiplexer has for its id.
THEOREM HeldStaysRegistered ==
  ASSUME OneOpener
  PROVE  Spec => []HeldIsRegistered
<1>1. Inv /\ [Next]_vars => Inv'
  BY TypeNext, CallsNext, MapsNext DEF Inv
<1>2. Inv => HeldIsRegistered
  BY DEF Inv, Maps
<1> QED BY <1>1, <1>2, InvInit, PTL DEF Spec
=============================================================================
