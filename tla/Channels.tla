------------------------------- MODULE Channels -------------------------------
(***************************************************************************)
(* What ChannelMultiplexer (channel.ts) promises to those who open service *)
(* channels with it, and to the RPC layer above: every open() that         *)
(* succeeds makes a private pair of pipes between an opener and an         *)
(* acceptor.  Whatever else travels over the same connection, an end reads *)
(* what the other end of its own pair wrote, all of it and in order, and   *)
(* is told that the other end is closed after it has read the last of it.  *)
(*                                                                         *)
(* A pair is named by its open() call, an end by the pair and its role.  A *)
(* side that loses its connection loses all its ends.                      *)
(***************************************************************************)
EXTENDS Naturals, Sequences

CONSTANTS
  Side,     \* the two sides of the connection
  Pair,     \* the open() calls
  Caller,   \* pair -> the side that calls
  Payload   \* what can be written

VARIABLES
  up,       \* the sides that have not lost the connection
  state,    \* the life of an end
  pipe,     \* what the other end has written and the end has yet to read
  read      \* what the end has read

vars == <<up, state, pipe, read>>

End == [pair : Pair, role : {"opener", "acceptor"}]

OpenerOf(k)   == [pair |-> k, role |-> "opener"]
AcceptorOf(k) == [pair |-> k, role |-> "acceptor"]
Peer(e)       == IF e.role = "opener" THEN AcceptorOf(e.pair) ELSE OpenerOf(e.pair)

State == {"unused", "waiting", "open", "closed", "told", "rejected"}

IsAt(e, side) == e.role = "opener" <=> Caller[e.pair] = side

Init ==
  /\ up = Side
  /\ state = [e \in End |-> "unused"]
  /\ pipe = [e \in End |-> <<>>]
  /\ read = [e \in End |-> <<>>]

Become(e, s) == state' = [state EXCEPT ![e] = s]

Open(k) ==
  /\ Caller[k] \in up
  /\ state[OpenerOf(k)] = "unused"
  /\ Become(OpenerOf(k), "waiting")
  /\ UNCHANGED <<up, pipe, read>>

Accept(k) ==
  /\ \E side \in up : IsAt(AcceptorOf(k), side)
  /\ state[AcceptorOf(k)] = "unused"
  /\ state[OpenerOf(k)] # "unused"
  /\ Become(AcceptorOf(k), "open")
  /\ UNCHANGED <<up, pipe, read>>

\* The open() call returns, but never before the other side has its end.
Return(k) ==
  /\ state[OpenerOf(k)] = "waiting"
  /\ state[AcceptorOf(k)] # "unused"
  /\ Become(OpenerOf(k), "open")
  /\ UNCHANGED <<up, pipe, read>>

\* What is written to an end that is gone is lost.
Write(e, payload) ==
  /\ state[e] = "open"
  /\ pipe' = [pipe EXCEPT ![Peer(e)] =
                 IF state[Peer(e)] \in {"waiting", "open"} THEN Append(@, payload)
                                                          ELSE @]
  /\ UNCHANGED <<up, state, read>>

Read(e) ==
  /\ state[e] = "open"
  /\ pipe[e] # <<>>
  /\ read' = [read EXCEPT ![e] = Append(@, Head(pipe[e]))]
  /\ pipe' = [pipe EXCEPT ![e] = Tail(@)]
  /\ UNCHANGED <<up, state>>

Close(e) ==
  /\ state[e] = "open"
  /\ Become(e, "closed")
  /\ pipe' = [pipe EXCEPT ![e] = <<>>]
  /\ UNCHANGED <<up, read>>

\* onClose: the other end was closed, and all it wrote has been read.
Told(e) ==
  /\ state[e] = "open"
  /\ state[Peer(e)] = "closed"
  /\ pipe[e] = <<>>
  /\ Become(e, "told")
  /\ UNCHANGED <<up, pipe, read>>

\* A side loses its connection: its calls that wait are rejected, its open
\* ends told.
Lose(side) ==
  LET lost == {e \in End : IsAt(e, side) /\ state[e] \in {"waiting", "open"}}
  IN /\ side \in up
     /\ up' = up \ {side}
     /\ state' = [e \in End |->
                    IF e \in lost
                    THEN IF state[e] = "waiting" THEN "rejected" ELSE "told"
                    ELSE state[e]]
     /\ pipe' = [e \in End |-> IF e \in lost THEN <<>> ELSE pipe[e]]
     /\ UNCHANGED read

Next ==
  \/ \E k \in Pair : Open(k) \/ Accept(k) \/ Return(k)
  \/ \E e \in End : Read(e) \/ Close(e) \/ Told(e)
  \/ \E e \in End, payload \in Payload : Write(e, payload)
  \/ \E side \in Side : Lose(side)

Spec == Init /\ [][Next]_vars
=============================================================================
