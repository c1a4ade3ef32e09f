----------------------------- MODULE FileWatching -----------------------------
(***************************************************************************)
(* Watching one path (packages/filesystem): a front end keeps the watches  *)
(* it wants and asks for them again on every connection; the back end has  *)
(* a server and a client of the watcher service for each connection; the   *)
(* service, in a child process, shares one ParcelWatcher among them, which *)
(* starts once the path exists and is disposed some time after its last    *)
(* reference.  Connections close, watchers fail and the process exits.     *)
(***************************************************************************)
EXTENDS Naturals, SequencesExt

CONSTANTS
  FrontEnd,
  Id,             \* the calls of watch
  Owner,          \* id -> the front end that makes it
  MaxConnections, \* bound: connections of a front end
  MaxErrors,      \* bound: native watchers that fail
  MaxCrashes      \* bound: exits of the watcher process

ASSUME WatchingAssumption ==
  /\ IsFiniteSet(Id) /\ Owner \in [Id -> FrontEnd]
  /\ MaxConnections \in Nat /\ MaxErrors \in Nat /\ MaxCrashes \in Nat

Client == FrontEnd \X (1 .. MaxConnections)
Handle == Id \X (1 .. MaxConnections)

VARIABLES
  (* front ends *)
  asked,        \* ids given out (watcherSequence)
  watchOptions, \* ids that are wanted
  calls,        \* front end -> calls that wait for a connection or are under way
  connection,   \* front end -> its last connection, 0: none yet
  connected,    \* front ends whose last connection is open for them
  (* back end *)
  serving,      \* clients whose server is not disposed
  handle,       \* what DiskFileSystemProvider.watch returned
  told,         \* clients that were told of an error
  reachable,    \* the deferred of the proxy to the process is the protocol in use
  requests,     \* from the back end, waiting for the deferred or on their way
  messages,     \* from the process: watcher ids and errors
  (* watcher process *)
  watcherId, watcherHandles,
  watchers,     \* every ParcelWatcher the process made
  current,      \* the one in its map, 0: none
  errors, crashes

frontend == <<asked, watchOptions, calls, connection, connected>>
service  == <<watcherId, watcherHandles, watchers, current>>
vars == <<frontend, serving, handle, told, reachable, requests, messages, service, errors, crashes>>

ClientOf(h) == <<Owner[h[1]], h[2]>>

Init ==
  /\ asked = {} /\ watchOptions = {}
  /\ calls = [f \in FrontEnd |-> <<>>] /\ connection = [f \in FrontEnd |-> 0] /\ connected = {}
  /\ serving = {} /\ told = {}
  /\ handle = [h \in Handle |-> [stage |-> "none", watcherId |-> 0]]
  /\ reachable = TRUE /\ requests = <<>> /\ messages = <<>>
  /\ watcherId = 0 /\ watcherHandles = {} /\ watchers = <<>> /\ current = 0
  /\ errors = 0 /\ crashes = 0

-----------------------------------------------------------------------------
(* RemoteFileSystemProvider.                                               *)
Call(op, i) == [op |-> op, id |-> i]

Watch(i) ==
  /\ i \notin asked /\ asked' = asked \cup {i}
  /\ watchOptions' = watchOptions \cup {i}
  /\ calls' = [calls EXCEPT ![Owner[i]] = Append(@, Call("watch", i))]
  /\ UNCHANGED <<connection, connected, serving, handle, told, reachable, requests, messages, service, errors, crashes>>

Unwatch(i) ==
  /\ i \in watchOptions /\ watchOptions' = watchOptions \ {i}
  /\ calls' = [calls EXCEPT ![Owner[i]] = Append(@, Call("unwatch", i))]
  /\ UNCHANGED <<asked, connection, connected, serving, handle, told, reachable, requests, messages, service, errors, crashes>>

\* Mistake: what is wanted is not asked for again.
NoRewatch(f) == {}

(* reconnect asks for all that is wanted, in the order of a Map, on which  *)
(* nothing depends; not on the first connection.                           *)
Rewatched(f) == IF connection[f] = 0 THEN {} ELSE {i \in watchOptions : Owner[i] = f}

(* The connection opens: a server and a client are made for it, the calls  *)
(* that waited are sent, then those of reconnect.                          *)
Open(f) ==
  /\ f \notin connected /\ connection[f] < MaxConnections
  /\ connection' = [connection EXCEPT ![f] = @ + 1] /\ connected' = connected \cup {f}
  /\ serving' = serving \cup {<<f, connection[f] + 1>>}
  /\ \E s \in SetToSeqs(Rewatched(f)) :
       calls' = [calls EXCEPT ![f] = @ \o [j \in DOMAIN s |-> Call("watch", s[j])]]
  /\ UNCHANGED <<asked, watchOptions, handle, told, reachable, requests, messages, service, errors, crashes>>

(* It closes for the front end; the calls under way on it are lost.  The   *)
(* last connection stays open.                                             *)
Close(f) ==
  /\ f \in connected /\ connection[f] < MaxConnections
  /\ connected' = connected \ {f} /\ calls' = [calls EXCEPT ![f] = <<>>]
  /\ UNCHANGED <<asked, watchOptions, connection, serving, handle, told, reachable, requests, messages, service, errors, crashes>>

-----------------------------------------------------------------------------
(* The server of a connection, its DiskFileSystemProvider and its client   *)
(* of the watcher service.                                                 *)
Request(op, h, w) == [op |-> op, handle |-> h, watcherId |-> w]
Unwatching(h) == Request("unwatch", h, handle[h].watcherId)

\* Mistake: a handle disposed before it has its watcher is forgotten.
DisposeForgetting(h) == [handle[h] EXCEPT !.stage =
  IF handle[h].stage = "allocated" THEN "gone" ELSE @]

(* dispose of a handle, which may not have its watcher yet.                *)
Disposed(h) == [handle[h] EXCEPT !.stage =
  CASE handle[h].stage = "allocated" -> "gone"
    [] handle[h].stage = "requested" -> "released"
    [] OTHER -> @]

(* watch of an id that is allocated throws; unwatch of one that is not     *)
(* does nothing.                                                           *)
ServeCall(f) ==
  /\ f \in connected /\ calls[f] # <<>> /\ <<f, connection[f]>> \in serving
  /\ calls' = [calls EXCEPT ![f] = Tail(@)]
  /\ LET h == <<Head(calls[f]).id, connection[f]>> IN
     CASE Head(calls[f]).op = "watch" /\ handle[h].stage = "none" ->
            /\ handle' = [handle EXCEPT ![h].stage = "requested"]
            /\ requests' = Append(requests, Request("watch", h, 0))
       [] Head(calls[f]).op = "unwatch" ->
            /\ handle' = [handle EXCEPT ![h] = Disposed(h)]
            /\ requests' = IF handle[h].stage = "allocated" THEN Append(requests, Unwatching(h)) ELSE requests
       [] OTHER -> UNCHANGED <<handle, requests>>
  /\ UNCHANGED <<asked, watchOptions, connection, connected, serving, told, reachable, messages, service, errors, crashes>>

(* The back end learns that a connection is closed, or closes it itself:   *)
(* the client leaves the dispatcher, what is allocated is unwatched.       *)
DisposeServer(c) ==
  /\ c \in serving /\ c[2] < MaxConnections
  /\ serving' = serving \ {c}
  /\ handle' = [h \in Handle |-> IF ClientOf(h) = c THEN Disposed(h) ELSE handle[h]]
  /\ \E s \in SetToSeqs({h \in Handle : ClientOf(h) = c /\ handle[h].stage = "allocated"}) :
       requests' = requests \o [j \in DOMAIN s |-> Unwatching(s[j])]
  /\ UNCHANGED <<frontend, told, reachable, messages, service, errors, crashes>>

(* An answer or an error arrives from the process.                         *)
Receive ==
  /\ messages # <<>> /\ messages' = Tail(messages)
  /\ LET m == Head(messages) IN
     IF m.kind = "error"
     THEN /\ told' = told \cup (serving \cap IF m.clients = {} THEN serving ELSE m.clients)
          /\ UNCHANGED <<handle, requests>>
     ELSE /\ handle' = [handle EXCEPT ![m.handle] =
                [stage |-> IF @.stage = "released" THEN "gone" ELSE "allocated", watcherId |-> m.watcherId]]
          /\ requests' = IF handle[m.handle].stage = "released"
                         THEN Append(requests, Request("unwatch", m.handle, m.watcherId)) ELSE requests
          /\ UNCHANGED told
  /\ UNCHANGED <<frontend, serving, reachable, service, errors, crashes>>

-----------------------------------------------------------------------------
(* ParcelFileSystemWatcherService and ParcelWatcher.                       *)
Answer(h) == [kind |-> "answer", handle |-> h, watcherId |-> watcherId, clients |-> {}]
Failed(cs) == [kind |-> "error", handle |-> <<>>, watcherId |-> 0, clients |-> cs]

GetClientIds(w) == {c \in Client : watchers[w].refs[c] > 0}

(* Constructor, with the first reference; start looks for the path.        *)
NewWatcher(c) ==
  [stage |-> "waiting", disposed |-> FALSE, native |-> FALSE, timer |-> FALSE,
   refs |-> [d \in Client |-> IF d = c THEN 1 ELSE 0]]

\* Mistake: the timer goes on.
AddRefKeepingTimer(c) == [watchers[current] EXCEPT !.refs[c] = @ + 1]

(* addRef, onRefsRevive: the disposal of a watcher without references is   *)
(* off.                                                                    *)
AddRef(c) == [watchers[current] EXCEPT !.refs[c] = @ + 1,
                                       !.timer = @ /\ GetClientIds(current) # {}]

\* Mistake: the reference is removed for the handle and for the client.
RemoveRefTwice(e) == [watchers[e.watcher] EXCEPT
  !.refs[e.client] = @ - 2,
  !.timer = @ \/ (GetClientIds(e.watcher) = {e.client} /\ watchers[e.watcher].refs[e.client] = 1)]

(* removeRef, onRefsReachZero.                                             *)
RemoveRef(e) == [watchers[e.watcher] EXCEPT
  !.refs[e.client] = @ - 1,
  !.timer = @ \/ (GetClientIds(e.watcher) = {e.client} /\ watchers[e.watcher].refs[e.client] = 1)]

(* watchFileChanges: a watcher of its own, or a reference to the one that  *)
(* is there.                                                               *)
WatchFileChanges(h) ==
  LET c == ClientOf(h)  w == IF current = 0 THEN Len(watchers) + 1 ELSE current IN
  /\ watchers' = IF current = 0 THEN Append(watchers, NewWatcher(c))
                 ELSE [watchers EXCEPT ![current] = AddRef(c)]
  /\ current' = w
  /\ watcherHandles' = watcherHandles \cup {[id |-> watcherId, client |-> c, watcher |-> w]}
  /\ watcherId' = watcherId + 1
  /\ messages' = Append(messages, Answer(h))

(* unwatchFileChanges: an id that is not there is let be.                  *)
UnwatchFileChanges(w) ==
  /\ \/ \E e \in watcherHandles :
          /\ e.id = w /\ watcherHandles' = watcherHandles \ {e}
          /\ watchers' = [watchers EXCEPT ![e.watcher] = RemoveRef(e)]
     \/ /\ \A e \in watcherHandles : e.id # w
        /\ UNCHANGED <<watchers, watcherHandles>>
  /\ UNCHANGED <<watcherId, current, messages>>

ServeRequest ==
  /\ reachable /\ requests # <<>> /\ requests' = Tail(requests)
  /\ LET r == Head(requests) IN
     \/ r.op = "watch" /\ WatchFileChanges(r.handle)
     \/ r.op = "unwatch" /\ UnwatchFileChanges(r.watcherId)
  /\ UNCHANGED <<frontend, serving, handle, told, reachable, errors, crashes>>

\* Mistake: the watcher stays in the map.
DisposeKeepingEntry(w, s) ==
  /\ watchers' = [watchers EXCEPT ![w].stage = s, ![w].disposed = TRUE, ![w].native = FALSE]
  /\ UNCHANGED <<current, watcherHandles>>

(* _dispose of w, now at stage s: it is stopped if it is started, and the  *)
(* service forgets it and its handles.                                     *)
Dispose(w, s) ==
  /\ watchers' = [watchers EXCEPT ![w].stage = s, ![w].disposed = TRUE,
                    ![w].native = @ /\ watchers[w].stage # "started"]
  /\ current' = IF current = w THEN 0 ELSE current
  /\ watcherHandles' = {e \in watcherHandles : e.watcher # w}

\* Mistake: nobody is told.
NoError(w) == UNCHANGED messages

(* fireError: to the clients that have references, or to all.              *)
FireError(w) == messages' = Append(messages, Failed(GetClientIds(w)))

Unaffected == <<frontend, serving, handle, told, reachable, requests, watcherId, crashes>>

TimerFires(w) ==
  /\ watchers[w].timer /\ ~ watchers[w].disposed
  /\ Dispose(w, watchers[w].stage)
  /\ UNCHANGED <<messages, errors, Unaffected>>

(* start: the path is there, or the watcher was disposed meanwhile.        *)
CheckPath(w) ==
  /\ watchers[w].stage = "waiting"
  /\ watchers' = [watchers EXCEPT ![w].stage = IF watchers[w].disposed THEN "ended" ELSE "creating"]
  /\ UNCHANGED <<watcherHandles, current, messages, errors, Unaffected>>

(* createWatcher returns: assertNotDisposed throws for a watcher disposed  *)
(* meanwhile, before the branch that would stop what was created.          *)
Created(w) ==
  /\ watchers[w].stage = "creating"
  /\ watchers' = [watchers EXCEPT ![w].stage = IF watchers[w].disposed THEN "ended" ELSE "started",
                                  ![w].native = TRUE]
  /\ UNCHANGED <<watcherHandles, current, messages, errors, Unaffected>>

(* createWatcher throws, or a native watcher reports an error.             *)
Fails(w) ==
  /\ errors < MaxErrors /\ errors' = errors + 1
  /\ watchers[w].stage = "creating" \/ watchers[w].native
  /\ IF watchers[w].disposed
     THEN /\ watchers' = [watchers EXCEPT ![w].stage = "ended"]
          /\ UNCHANGED <<watcherHandles, current>>
     ELSE Dispose(w, "ended")
  /\ FireError(w)
  /\ UNCHANGED Unaffected

(* The process exits.  What was on its way is lost.  The listener that     *)
(* starts the next one runs first and hands its channel to the deferred of *)
(* the proxy: a deferred that is resolved ignores it, and the next one,    *)
(* made after, waits; one that waits is resolved.                          *)
Crash ==
  /\ crashes < MaxCrashes /\ crashes' = crashes + 1
  /\ reachable' = ~ reachable
  /\ requests' = IF reachable THEN <<>> ELSE requests
  /\ handle' = [h \in Handle |->
       IF \/ reachable /\ \E j \in DOMAIN requests : requests[j] = Request("watch", h, 0)
          \/ \E j \in DOMAIN messages : messages[j].kind = "answer" /\ messages[j].handle = h
       THEN [handle[h] EXCEPT !.stage = "failed"] ELSE handle[h]]
  /\ messages' = <<>> /\ watcherId' = 0 /\ watcherHandles' = {} /\ watchers' = <<>> /\ current' = 0
  /\ UNCHANGED <<frontend, serving, told, errors>>

Next ==
  \/ \E i \in Id : Watch(i) \/ Unwatch(i)
  \/ \E f \in FrontEnd : Open(f) \/ Close(f) \/ ServeCall(f)
  \/ \E c \in Client : DisposeServer(c)
  \/ ServeRequest \/ Receive
  \/ \E w \in DOMAIN watchers : TimerFires(w) \/ CheckPath(w) \/ Created(w) \/ Fails(w)
  \/ Crash

Spec == Init /\ [][Next]_vars

(* Connections deliver and both ends learn of a close, the processes run   *)
(* what has arrived and timers that have expired; a path need not appear.  *)
Watcher == 1 .. Cardinality(Handle)

Fairness ==
  /\ \A f \in FrontEnd : WF_vars(ServeCall(f)) /\ WF_vars(<<f, connection[f]>> \notin serving /\ Close(f))
  /\ \A c \in Client : WF_vars((c[2] # connection[c[1]] \/ c[1] \notin connected) /\ DisposeServer(c))
  /\ WF_vars(ServeRequest) /\ WF_vars(Receive)
  /\ \A w \in Watcher : WF_vars(w \in DOMAIN watchers /\ TimerFires(w))
                     /\ WF_vars(w \in DOMAIN watchers /\ Created(w))

FairSpec == Spec /\ Fairness

-----------------------------------------------------------------------------
Stage == {"none", "requested", "allocated", "released", "gone", "failed"}

(* Every variable has its type.                                            *)
TypeOK ==
  /\ asked \subseteq Id /\ watchOptions \subseteq asked
  /\ calls \in [FrontEnd -> Seq([op : {"watch", "unwatch"}, id : Id])]
  /\ connection \in [FrontEnd -> 0 .. MaxConnections] /\ connected \subseteq FrontEnd
  /\ serving \subseteq Client /\ told \subseteq Client
  /\ handle \in [Handle -> [stage : Stage, watcherId : Nat]]
  /\ reachable \in BOOLEAN
  /\ requests \in Seq([op : {"watch", "unwatch"}, handle : Handle, watcherId : Nat])
  /\ messages \in Seq([kind : {"answer"}, handle : Handle, watcherId : Nat, clients : {{}}]
                 \cup [kind : {"error"}, handle : {<<>>}, watcherId : {0}, clients : SUBSET Client])
  /\ watcherId \in Nat
  /\ watchers \in Seq([stage : {"waiting", "creating", "started", "ended"}, disposed : BOOLEAN,
                       native : BOOLEAN, timer : BOOLEAN, refs : [Client -> Nat]])
  /\ watcherHandles \subseteq [id : Nat, client : Client, watcher : DOMAIN watchers]
  /\ current \in 0 .. Len(watchers)
  /\ errors \in Nat /\ crashes \in Nat

HandlesOf(w, c) == {e \in watcherHandles : e.watcher = w /\ e.client = c}

(* The watcher in the map, and no other, is not disposed; its references   *)
(* of a client are the handles of that client, and its timer runs when     *)
(* nobody has any: a watcher in use is never discarded, one out of use is. *)
RefsMatch ==
  \A w \in DOMAIN watchers :
    /\ watchers[w].disposed <=> w # current
    /\ w = current =>
         /\ \A c \in Client : watchers[w].refs[c] = Cardinality(HandlesOf(w, c))
         /\ watchers[w].timer <=> GetClientIds(w) = {}

Under(w, op) == \E j \in DOMAIN requests : requests[j].op = op /\ requests[j].watcherId = w

(* No reference outlives who asked for it: every handle of the service is  *)
(* allocated by a client that is there, or its id is on the way to one,    *)
(* or on its way back.                                                     *)
HandlesOwned ==
  \A e \in watcherHandles :
    \/ \E h \in Handle : handle[h] = [stage |-> "allocated", watcherId |-> e.id] /\ ClientOf(h) = e.client
                          /\ e.client \in serving
    \/ \E j \in DOMAIN messages : /\ messages[j].kind = "answer" /\ messages[j].watcherId = e.id
                                   /\ ClientOf(messages[j].handle) = e.client
    \/ Under(e.id, "unwatch")

(* What a client has allocated is watched, unless it was told of an error  *)
(* or will be.                                                             *)
NoSilentLoss ==
  crashes = 0 =>
    \A h \in Handle : handle[h].stage = "allocated" =>
      \/ \E e \in HandlesOf(current, ClientOf(h)) : e.id = handle[h].watcherId
      \/ ClientOf(h) \in told
      \/ \E j \in DOMAIN messages : messages[j].kind = "error" /\ ClientOf(h) \in messages[j].clients

(* A native watcher does not run on when its watcher is disposed.          *)
StoppedWhenDisposed ==
  \A w \in DOMAIN watchers : watchers[w].native => ~ watchers[w].disposed

Watched(i) == handle[<<i, connection[Owner[i]]>>].stage = "allocated"
Served(i) == Owner[i] \in connected /\ <<Owner[i], connection[Owner[i]]>> \in serving

(* What a front end wants on its connection is watched in the end, unless  *)
(* it changes its mind or loses the connection.                            *)
WatchAnswered ==
  \A i \in Id : (i \in watchOptions /\ Served(i))
                  ~> (i \notin watchOptions \/ ~ Served(i) \/ Watched(i))

(* The same as long as the process has not exited.                         *)
WatchSettles ==
  \A i \in Id : (i \in watchOptions /\ Served(i))
                  ~> (i \notin watchOptions \/ ~ Served(i) \/ Watched(i) \/ crashes > 0)

(* When nothing is wanted any more, nothing is watched in the end.         *)
Discarded == (asked = Id /\ watchOptions = {}) ~> (current = 0)
=============================================================================
