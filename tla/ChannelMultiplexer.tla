-------------------------- MODULE ChannelMultiplexer --------------------------
(***************************************************************************)
(* The two ChannelMultiplexers (channel.ts) at the sides of one connection *)
(* of Theia, the service channels they open over it, and the code that     *)
(* holds those channels.  The connection delivers packets in order until a *)
(* side learns that it is closed.                                          *)
(*                                                                         *)
(* The code identifies a channel by its id only, on the wire and in its    *)
(* maps; ids are used again.  Here each open() call is a PAIR of its own   *)
(* and a ForwardingChannel is an END of a pair: what a packet carries      *)
(* beyond its type, its id and its payload is for the properties alone,    *)
(* and no handler looks at it, save that the end a handler creates has to  *)
(* be given its name.                                                      *)
(***************************************************************************)
EXTENDS Naturals, Sequences

CONSTANTS
  Id,        \* channel ids (service paths)
  MayOpen,   \* id -> the sides that call open() with it
  Loss,      \* the connection may close
  MaxOpens,  \* bound: open() calls
  MaxData    \* bound: messages written to one end

Side == {"left", "right"}
Other(p) == IF p = "left" THEN "right" ELSE "left"

ASSUME OpenersAssumption == MayOpen \in [Id -> SUBSET Side]
ASSUME LossAssumption == Loss \in BOOLEAN
ASSUME BoundsAssumption == MaxOpens \in Nat /\ MaxData \in Nat

(* The n-th open() call is one of a side with an id.                        *)
Pair == {k \in [by : Side, id : Id, n : 1 .. MaxOpens] : k.by \in MayOpen[k.id]}
End  == [pair : Pair, role : {"opener", "acceptor"}]

OpenerOf(k)   == [pair |-> k, role |-> "opener"]
AcceptorOf(k) == [pair |-> k, role |-> "acceptor"]
Peer(e)       == IF e.role = "opener" THEN AcceptorOf(e.pair) ELSE OpenerOf(e.pair)
At(e)         == IF e.role = "opener" THEN e.pair.by ELSE Other(e.pair.by)

(* A packet names the end it is sent from; n numbers the data of an end.   *)
MessageTypes == {"Open", "Close", "AckOpen", "Data"}
Packet == [type : MessageTypes, id : Id, from : End, n : 0 .. MaxData]

VARIABLES
  pendingOpen,   \* side -> the open() calls in its map
  openChannels,  \* side -> the ends in its map
  closed,        \* sides that know the underlying channel closed
  link,          \* side -> packets on the way to it
  opens,         \* number of open() calls made
  promise,       \* open() call -> what has become of its promise
  holder,        \* end -> what those who hold the channel know of it
  written,       \* end -> number of messages written
  read           \* end -> messages its onMessage listeners were given

maps    == <<pendingOpen, openChannels>>
holders == <<holder, written, read>>
vars    == <<maps, closed, link, opens, promise, holders>>

-----------------------------------------------------------------------------
(* Maps by channel id: at most one entry has a given id.                    *)

IdOf(e) == e.pair.id

PendingFor(p, id) == {k \in pendingOpen[p] : k.id = id}
ChannelFor(p, id) == {e \in openChannels[p] : IdOf(e) = id}

SetChannel(p, e) ==
  openChannels' = [openChannels EXCEPT ![p] = (@ \ ChannelFor(p, IdOf(e))) \cup {e}]

DeleteChannel(p, id) ==
  openChannels' = [openChannels EXCEPT ![p] = @ \ ChannelFor(p, id)]

DeletePending(p, id) ==
  pendingOpen' = [pendingOpen EXCEPT ![p] = @ \ PendingFor(p, id)]

(* What is written to a connection the other side has lost goes nowhere.    *)
Sent(queues, p, type, e, n) ==
  IF Other(p) \in closed THEN queues
  ELSE [queues EXCEPT ![Other(p)] =
          Append(@, [type |-> type, id |-> IdOf(e), from |-> e, n |-> n])]

-----------------------------------------------------------------------------
Init ==
  /\ pendingOpen = [p \in Side |-> {}]
  /\ openChannels = [p \in Side |-> {}]
  /\ closed = {}
  /\ link = [p \in Side |-> <<>>]
  /\ opens = 0
  /\ promise = [k \in Pair |-> "none"]
  /\ holder = [e \in End |-> "none"]
  /\ written = [e \in End |-> 0]
  /\ read = [e \in End |-> <<>>]

\* open(id), on a multiplexer whose channel is up.  It throws if the id is
\* open or pending.
Open(p, id) ==
  /\ p \notin closed
  /\ p \in MayOpen[id] /\ opens < MaxOpens
  /\ ChannelFor(p, id) = {} /\ PendingFor(p, id) = {}
  /\ LET k == [by |-> p, id |-> id, n |-> opens + 1]
     IN /\ opens' = opens + 1
        /\ pendingOpen' = [pendingOpen EXCEPT ![p] = @ \cup {k}]
        /\ promise' = [promise EXCEPT ![k] = "waiting"]
        /\ link' = Sent(link, p, "Open", OpenerOf(k), 0)
  /\ UNCHANGED <<openChannels, closed, holders>>

\* The promises of the calls are resolved, with a channel; or rejected.
Settle(calls, outcome) ==
  promise' = [k \in Pair |-> IF k \in calls /\ promise[k] = "waiting"
                             THEN outcome ELSE promise[k]]

\* createChannel, and the channel given to those who will hold it.
Create(p, e) ==
  /\ SetChannel(p, e)
  /\ holder' = [holder EXCEPT ![e] = "open"]
  /\ UNCHANGED <<written, read>>

\* Mistake: the map gets the call instead of the channel.
HandleAckOpenStoringCall(p, packet) ==
  /\ openChannels' = [openChannels EXCEPT ![p] = @ \cup PendingFor(p, packet.id)]
  /\ DeletePending(p, packet.id)
  /\ Settle(PendingFor(p, packet.id), "resolved")
  /\ link' = [link EXCEPT ![p] = Tail(@)]
  /\ UNCHANGED holders

HandleAckOpen(p, packet) ==
  /\ IF PendingFor(p, packet.id) # {}
     THEN /\ \E k \in PendingFor(p, packet.id) : Create(p, OpenerOf(k))
          /\ DeletePending(p, packet.id)
          /\ Settle(PendingFor(p, packet.id), "resolved")
     ELSE UNCHANGED <<maps, promise, holders>>
  /\ link' = [link EXCEPT ![p] = Tail(@)]

\* Mistake: no answer.
HandleOpenSilently(p, packet) ==
  /\ IF ChannelFor(p, packet.id) = {}
     THEN Create(p, AcceptorOf(packet.from.pair))
     ELSE UNCHANGED <<openChannels, holders>>
  /\ link' = [link EXCEPT ![p] = Tail(@)]
  /\ UNCHANGED <<pendingOpen, promise>>

HandleOpen(p, packet) ==
  LET e    == AcceptorOf(packet.from.pair)
      rest == [link EXCEPT ![p] = Tail(@)]
  IN IF ChannelFor(p, packet.id) = {}
     THEN /\ Create(p, e)
          /\ Settle(PendingFor(p, packet.id), "resolved")
          /\ link' = Sent(rest, p, "AckOpen", e, 0)
          /\ UNCHANGED pendingOpen
     ELSE /\ link' = rest
          /\ UNCHANGED <<maps, promise, holders>>

\* Mistake: the channel is dropped and nobody told.
HandleCloseSilently(p, packet) ==
  /\ DeleteChannel(p, packet.id)
  /\ link' = [link EXCEPT ![p] = Tail(@)]
  /\ UNCHANGED <<pendingOpen, promise, holders>>

HandleClose(p, packet) ==
  /\ holder' = [e \in End |-> IF e \in ChannelFor(p, packet.id) /\ holder[e] = "open"
                              THEN "told" ELSE holder[e]]
  /\ DeleteChannel(p, packet.id)
  /\ link' = [link EXCEPT ![p] = Tail(@)]
  /\ UNCHANGED <<pendingOpen, promise, written, read>>

\* Mistake: as handleError, it tells every channel.
HandleDataOnAll(p, packet) ==
  /\ read' = [e \in End |-> IF e \in openChannels[p] /\ holder[e] = "open"
                            THEN Append(read[e], [from |-> packet.from, n |-> packet.n])
                            ELSE read[e]]
  /\ link' = [link EXCEPT ![p] = Tail(@)]
  /\ UNCHANGED <<maps, promise, holder, written>>

HandleData(p, packet) ==
  /\ read' = [e \in End |-> IF e \in ChannelFor(p, packet.id) /\ holder[e] = "open"
                            THEN Append(read[e], [from |-> packet.from, n |-> packet.n])
                            ELSE read[e]]
  /\ link' = [link EXCEPT ![p] = Tail(@)]
  /\ UNCHANGED <<maps, promise, holder, written>>

Receive(p) ==
  /\ p \notin closed
  /\ link[p] # <<>>
  /\ LET packet == Head(link[p])
     IN \/ packet.type = "AckOpen" /\ HandleAckOpen(p, packet)
        \/ packet.type = "Open" /\ HandleOpen(p, packet)
        \/ packet.type = "Close" /\ HandleClose(p, packet)
        \/ packet.type = "Data" /\ HandleData(p, packet)
  /\ UNCHANGED <<closed, opens>>

\* A message committed to the channel's write buffer.
Write(e) ==
  /\ holder[e] = "open"
  /\ written[e] < MaxData
  /\ written' = [written EXCEPT ![e] = @ + 1]
  /\ link' = Sent(link, At(e), "Data", e, written[e] + 1)
  /\ UNCHANGED <<maps, closed, opens, promise, holder, read>>

\* Mistake: the other side is not told.
CloseChannelSilently(e) ==
  /\ holder[e] = "open"
  /\ holder' = [holder EXCEPT ![e] = "closed"]
  /\ DeleteChannel(At(e), IdOf(e))
  /\ UNCHANGED <<pendingOpen, closed, link, opens, promise, written, read>>

\* ForwardingChannel.close, by a holder that knows it open.
CloseChannel(e) ==
  /\ holder[e] = "open"
  /\ holder' = [holder EXCEPT ![e] = "closed"]
  /\ DeleteChannel(At(e), IdOf(e))
  /\ link' = Sent(link, At(e), "Close", e, 0)
  /\ UNCHANGED <<pendingOpen, closed, opens, promise, written, read>>

\* Mistake: what waits is forgotten.
UnderlyingChannelCloseForgetting(p) ==
  /\ Loss /\ p \notin closed
  /\ closed' = closed \cup {p}
  /\ holder' = [e \in End |-> IF e \in openChannels[p] /\ holder[e] = "open"
                              THEN "told" ELSE holder[e]]
  /\ pendingOpen' = [pendingOpen EXCEPT ![p] = {}]
  /\ openChannels' = [openChannels EXCEPT ![p] = {}]
  /\ link' = [link EXCEPT ![p] = <<>>]
  /\ UNCHANGED <<opens, promise, written, read>>

\* onUnderlyingChannelClose: what waits is rejected, what is open told.
UnderlyingChannelClose(p) ==
  /\ Loss /\ p \notin closed
  /\ closed' = closed \cup {p}
  /\ Settle(pendingOpen[p], "rejected")
  /\ holder' = [e \in End |-> IF e \in openChannels[p] /\ holder[e] = "open"
                              THEN "told" ELSE holder[e]]
  /\ pendingOpen' = [pendingOpen EXCEPT ![p] = {}]
  /\ openChannels' = [openChannels EXCEPT ![p] = {}]
  /\ link' = [link EXCEPT ![p] = <<>>]
  /\ UNCHANGED <<opens, written, read>>

Next ==
  \/ \E p \in Side, id \in Id : Open(p, id)
  \/ \E p \in Side : Receive(p) \/ UnderlyingChannelClose(p)
  \/ \E e \in End : Write(e) \/ CloseChannel(e)

Spec == Init /\ [][Next]_vars

(* The connection delivers what it was given, and a side whose peer has    *)
(* lost it learns of that.                                                 *)
Fairness ==
  \A p \in Side : /\ WF_vars(Receive(p))
                  /\ WF_vars(Other(p) \in closed /\ UnderlyingChannelClose(p))

FairSpec == Spec /\ Fairness

-----------------------------------------------------------------------------
TypeOK ==
  /\ pendingOpen \in [Side -> SUBSET Pair]
  /\ openChannels \in [Side -> SUBSET End]
  /\ closed \subseteq Side
  /\ link \in [Side -> Seq(Packet)]
  /\ opens \in 0 .. MaxOpens
  /\ promise \in [Pair -> {"none", "waiting", "resolved", "rejected"}]
  /\ holder \in [End -> {"none", "open", "closed", "told"}]
  /\ written \in [End -> 0 .. MaxData]
  /\ read \in [End -> Seq([from : End, n : 0 .. MaxData])]

\* A channel its holder takes for open is the one in its side's map: it will
\* be given what arrives for its id, and be told when it is closed.
HeldIsRegistered ==
  \A e \in End : holder[e] = "open" => e \in openChannels[At(e)]

\* When nothing is under way, the two sides agree: no open() waits, and an
\* end is open if and only if the other end of its pair is.
EndsAgree ==
  closed = {} /\ (\A p \in Side : link[p] = <<>>)
    => /\ \A k \in Pair : promise[k] # "waiting"
       /\ \A e \in End : holder[e] = "open" => holder[Peer(e)] = "open"

\* An open() call is answered in the end, with a channel or an error.
OpenSettles == \A k \in Pair : promise[k] = "waiting" ~> promise[k] # "waiting"

\* An end whose other end was closed does not stay open.
CloseIsTold ==
  \A e \in End : holder[Peer(e)] = "closed" /\ holder[e] = "open"
                   ~> holder[e] # "open"

-----------------------------------------------------------------------------
(* The multiplexers implement the pairs of Channels.                        *)

StateOf(e) ==
  IF holder[e] # "none" THEN holder[e]
  ELSE IF e.role = "acceptor" \/ promise[e.pair] = "none" THEN "unused"
  ELSE promise[e.pair]

\* What the other end has written and this one has yet to read.  It does not
\* look at the link: that the link holds just these messages, in this order,
\* is what the refinement shows.
Unread(e) == IF StateOf(e) \in {"waiting", "open"} THEN written[Peer(e)] - Len(read[e]) ELSE 0

PipeTo(e) == [i \in 1 .. Unread(e) |-> [from |-> Peer(e), n |-> Len(read[e]) + i]]

Service == INSTANCE Channels WITH
  Caller  <- [k \in Pair |-> k.by],
  Payload <- [from : End, n : 1 .. MaxData],
  up      <- Side \ closed,
  state   <- [e \in End |-> StateOf(e)],
  pipe    <- [e \in End |-> PipeTo(e)]

\* Each open() makes a private pair of pipes: nothing is lost, reordered or
\* given to another channel, also when ids are used again while packets of
\* the channel that had the id before are under way.
ImplementsChannels == Service!Spec
=============================================================================
